---- MODULE Spec2Model ----
(***************************************************************************)
(* The content build pipeline of scripts/build-content.js: discovery of    *)
(* the markdown files under data/, the per-directory chapter order, the    *)
(* table of contents of a rendered chapter, the previous / toc / next      *)
(* links of every page, the pages written under docs/ and the library      *)
(* index docs/index.html.                                                  *)
(*                                                                         *)
(* Paths, file names, manifest lines and heading texts are strings; the    *)
(* string functions of the script (extname, basename, sort, match) are     *)
(* computed character by character.                                        *)
(***************************************************************************)
EXTENDS Integers, Sequences, FiniteSets, TLC

(***************************************************************************)
(* Bounds of the model.                                                    *)
(***************************************************************************)
\* the most chapter files (index.md aside) of the book whose content varies
MaxFiles == 2
\* the most lines of the bullet list of an index.md
MaxLines == 2

(***************************************************************************)
(* Strings.                                                                *)
(***************************************************************************)
Char(s, i) == SubSeq(s, i, i)

\* the element of a set of one element; {F(x) : x \in {e}} binds the value of
\* e to x, so that F reads a value computed once
The(S) == CHOOSE x \in S : TRUE

Max(a, b) == IF a >= b THEN a ELSE b

Min(a, b) == IF a <= b THEN a ELSE b

\* The characters the model's strings are made of, in UTF-16 code unit order.
CodeOrder ==
    "\t\n !#&'()*-./0123456789;<=>ABCDEFGHIJKLMNOPQRSTUVWXYZ[]_abcdefghijklmnopqrstuvwxyz"

\* the rank of every character in that order
CodeOf ==
    [c \in {Char(CodeOrder, i) : i \in 1..Len(CodeOrder)} |->
        CHOOSE i \in 1..Len(CodeOrder) : Char(CodeOrder, i) = c]

Code(c) == CodeOf[c]

Digits == "0123456789"

DigitChars == {Char(Digits, i) : i \in 1..10}

IsDigit(c) == c \in DigitChars

DigitVal(c) == CodeOf[c] - CodeOf["0"]

UpperCase == "ABCDEFGHIJKLMNOPQRSTUVWXYZ"

LowerCase == "abcdefghijklmnopqrstuvwxyz"

UpperChars == {Char(UpperCase, i) : i \in 1..26}

LowerChars == {Char(LowerCase, i) : i \in 1..26}

IsUpper(c) == c \in UpperChars

IsLower(c) == c \in LowerChars

\* \w of a JavaScript regular expression: [A-Za-z0-9_]
IsWordChar(c) == IsUpper(c) \/ IsLower(c) \/ IsDigit(c) \/ c = "_"

\* \s of a JavaScript regular expression, for the characters of the model
IsSpace(c) == c = " " \/ c = "\t" \/ c = "\n"

ToLowerChar(c) ==
    IF IsUpper(c) THEN Char(LowerCase, CodeOf[c] - CodeOf["A"] + 1) ELSE c

ToUpperChar(c) ==
    IF IsLower(c) THEN Char(UpperCase, CodeOf[c] - CodeOf["a"] + 1) ELSE c

RECURSIVE LowerFrom(_, _)
LowerFrom(s, i) ==
    IF i > Len(s) THEN "" ELSE ToLowerChar(Char(s, i)) \o LowerFrom(s, i + 1)

\* String.prototype.toLowerCase
ToLowerCase(s) == LowerFrom(s, 1)

\* does p occur in s at index i
OccursAt(s, i, p) ==
    i >= 1 /\ i + Len(p) - 1 <= Len(s) /\ SubSeq(s, i, i + Len(p) - 1) = p

StartsWith(s, p) == Len(s) >= Len(p) /\ SubSeq(s, 1, Len(p)) = p

EndsWith(s, p) == Len(s) >= Len(p) /\ SubSeq(s, Len(s) - Len(p) + 1, Len(s)) = p

\* the index of the first character of s at or after from that is no white
\* space, Len(s) + 1 when there is none
RECURSIVE SkipSpace(_, _)
SkipSpace(s, from) ==
    IF from > Len(s) THEN Len(s) + 1
    ELSE IF IsSpace(Char(s, from)) THEN SkipSpace(s, from + 1)
    ELSE from

\* the index of the last character of s at or before to that is no white
\* space, 0 when there is none
RECURSIVE SkipSpaceBack(_, _)
SkipSpaceBack(s, to) ==
    IF to < 1 THEN 0
    ELSE IF IsSpace(Char(s, to)) THEN SkipSpaceBack(s, to - 1)
    ELSE to

\* String.prototype.trim
Trim(s) ==
    LET b == SkipSpace(s, 1)
    IN  IF b > Len(s) THEN "" ELSE SubSeq(s, b, SkipSpaceBack(s, Len(s)))

\* the index of the last c in s at or before to, 0 when there is none
RECURSIVE LastIndexTo(_, _, _)
LastIndexTo(s, c, to) ==
    IF to < 1 THEN 0
    ELSE IF Char(s, to) = c THEN to
    ELSE LastIndexTo(s, c, to - 1)

LastIndexOf(s, c) == LastIndexTo(s, c, Len(s))

\* the index of the first c in s at or after from, 0 when there is none
RECURSIVE IndexOfFrom(_, _, _)
IndexOfFrom(s, c, from) ==
    IF from > Len(s) THEN 0
    ELSE IF Char(s, from) = c THEN from
    ELSE IndexOfFrom(s, c, from + 1)

\* a < b, compared from index i on, in the order of Array.prototype.sort()
\* without comparator (UTF-16 code units, a proper prefix first)
RECURSIVE LessFrom(_, _, _)
LessFrom(a, b, i) ==
    IF i > Len(b) THEN FALSE
    ELSE IF i > Len(a) THEN TRUE
    ELSE IF Char(a, i) = Char(b, i) THEN LessFrom(a, b, i + 1)
    ELSE Code(Char(a, i)) < Code(Char(b, i))

StrLess(a, b) == LessFrom(a, b, 1)

\* x put into a sorted sequence of strings
RECURSIVE InsertString(_, _)
InsertString(sorted, x) ==
    IF sorted = << >> THEN <<x>>
    ELSE IF StrLess(x, Head(sorted)) THEN <<x>> \o sorted
    ELSE <<Head(sorted)>> \o InsertString(Tail(sorted), x)

\* the names of a set as the sequence Array.prototype.sort() leaves them in
RECURSIVE SortStrings(_)
SortStrings(S) ==
    IF S = {} THEN << >>
    ELSE LET x == CHOOSE y \in S : TRUE
         IN  InsertString(SortStrings(S \ {x}), x)

\* the index of the last digit of the run of digits that starts at index i
RECURSIVE DigitRunEnd(_, _)
DigitRunEnd(s, i) ==
    IF i < Len(s) /\ IsDigit(Char(s, i + 1)) THEN DigitRunEnd(s, i + 1) ELSE i

\* the index of the first digit of s at or after from, 0 when there is none
RECURSIVE FirstDigit(_, _)
FirstDigit(s, from) ==
    IF from > Len(s) THEN 0
    ELSE IF IsDigit(Char(s, from)) THEN from
    ELSE FirstDigit(s, from + 1)

\* s.match(/\d+/)?.[0]: the first run of digits of s, "" when s has no digit
FirstDigitRun(s) ==
    LET b == FirstDigit(s, 1)
    IN  IF b = 0 THEN "" ELSE SubSeq(s, b, DigitRunEnd(s, b))

\* parseInt of a string of digits
RECURSIVE ParseDigitsTo(_, _)
ParseDigitsTo(s, n) ==
    IF n = 0 THEN 0 ELSE ParseDigitsTo(s, n - 1) * 10 + DigitVal(Char(s, n))

ParseDigits(s) == ParseDigitsTo(s, Len(s))

(***************************************************************************)
(* Paths (POSIX path module).                                              *)
(***************************************************************************)
basename(p) == SubSeq(p, LastIndexOf(p, "/") + 1, Len(p))

\* path.basename(p, ext): the extension is cut unless it is the whole name
basenameExt(p, ext) ==
    LET b == basename(p)
    IN  IF EndsWith(b, ext) /\ b # ext THEN SubSeq(b, 1, Len(b) - Len(ext)) ELSE b

dirname(p) ==
    LET i == LastIndexOf(p, "/")
    IN  IF i = 0 THEN "." ELSE IF i = 1 THEN "/" ELSE SubSeq(p, 1, i - 1)

\* path.extname: from the last dot of the name, "" when the name has no dot
\* or its only dot is its first character
extname(p) ==
    LET b == basename(p)
        i == LastIndexOf(b, ".")
    IN  IF i <= 1 THEN "" ELSE SubSeq(b, i, Len(b))

\* the segments of a path between its slashes
RECURSIVE Segments(_)
Segments(p) ==
    LET i == IndexOfFrom(p, "/", 1)
    IN  IF i = 0 THEN <<p>>
        ELSE <<SubSeq(p, 1, i - 1)>> \o Segments(SubSeq(p, i + 1, Len(p)))

\* path.normalize on the segments of a relative path: "" and "." are dropped,
\* ".." removes the segment before it
RECURSIVE NormalizeSegs(_, _)
NormalizeSegs(segs, acc) ==
    IF segs = << >> THEN acc
    ELSE LET s == Head(segs)
         IN  IF s = "" \/ s = "." THEN NormalizeSegs(Tail(segs), acc)
             ELSE IF s = ".." /\ acc # << >> /\ acc[Len(acc)] # ".."
                  THEN NormalizeSegs(Tail(segs), SubSeq(acc, 1, Len(acc) - 1))
             ELSE NormalizeSegs(Tail(segs), Append(acc, s))

RECURSIVE JoinSegs(_)
JoinSegs(segs) ==
    IF segs = << >> THEN "."
    ELSE IF Len(segs) = 1 THEN segs[1]
    ELSE segs[1] \o "/" \o JoinSegs(Tail(segs))

\* path.join(a, b)
join(a, b) == JoinSegs(NormalizeSegs(Segments(a \o "/" \o b), << >>))

\* path.relative(from, p) for a path p below the directory from
relative(from, p) ==
    IF StartsWith(p, from \o "/") THEN SubSeq(p, Len(from) + 2, Len(p)) ELSE p

(***************************************************************************)
(* The content root.  A tree is a function from the paths of its files to  *)
(* their text; its directories are the proper prefixes of those paths.     *)
(***************************************************************************)
\* is p a directory of the tree
isDirectory(tree, p) == \E f \in DOMAIN tree : StartsWith(f, p \o "/")

\* fs.existsSync
existsSync(tree, p) == p \in DOMAIN tree \/ isDirectory(tree, p)

\* fs.readdirSync(dir): the names of the entries of dir, in the order the
\* file system lists them, which is taken to be the sorted one
readdirSync(tree, dir) ==
    SortStrings({Head(Segments(relative(dir, f))) :
                    f \in {g \in DOMAIN tree : StartsWith(g, dir \o "/")}})

\* text.split('\n')
RECURSIVE SplitLines(_)
SplitLines(text) ==
    LET i == IndexOfFrom(text, "\n", 1)
    IN  IF i = 0 THEN <<text>>
        ELSE <<SubSeq(text, 1, i - 1)>> \o SplitLines(SubSeq(text, i + 1, Len(text)))

\* line.match(/^\s*\*\s+\[.*\]\(.*\.md\)/)
IsManifestLine(line) ==
    LET k == SkipSpace(line, 1)
        m == SkipSpace(line, k + 1)
    IN  /\ k <= Len(line) /\ Char(line, k) = "*"
        /\ m >= k + 2 /\ m <= Len(line) /\ Char(line, m) = "["
        /\ \E r \in (m + 1)..Len(line) :
              /\ OccursAt(line, r, "](")
              /\ \E e \in (r + 2)..Len(line) : OccursAt(line, e, ".md)")

\* the positions p of line where /\(([^)]+\.md)\)/ matches
TargetMatches(line) ==
    {p \in 1..Len(line) :
        /\ Char(line, p) = "("
        /\ LET q == IndexOfFrom(line, ")", p + 1)
           IN  q >= p + 5 /\ OccursAt(line, q - 3, ".md")}

\* is line.match(/\(([^)]+\.md)\)/) null
NoTarget(line) == TargetMatches(line) = {}

\* line.match(/\(([^)]+\.md)\)/)[1]
ManifestTarget(line) ==
    LET p == CHOOSE i \in TargetMatches(line) : \A j \in TargetMatches(line) : i <= j
    IN  SubSeq(line, p + 1, IndexOfFrom(line, ")", p + 1) - 1)

RECURSIVE SelectLines(_)
SelectLines(lines) ==
    IF lines = << >> THEN << >>
    ELSE IF IsManifestLine(Head(lines)) THEN <<Head(lines)>> \o SelectLines(Tail(lines))
    ELSE SelectLines(Tail(lines))

\* the lines of the text of an index.md that the filter of chapterOrder keeps
ManifestLinesOf(text) == SelectLines(SplitLines(text))

\* does getOrderedMarkdownFiles(dir) throw (the TypeError of null[1])
OrderThrows(tree, dir) ==
    /\ join(dir, "index.md") \in DOMAIN tree
    /\ \E ls \in {ManifestLinesOf(tree[join(dir, "index.md")])} :
          \E i \in DOMAIN ls : NoTarget(ls[i])

\* the .md entries of dir, sorted, as paths
LexicalFiles(tree, dir) ==
    The({[i \in DOMAIN md |-> join(dir, md[i])] :
            md \in {SelectSeq(readdirSync(tree, dir), LAMBDA n : extname(n) = ".md")}})

\* chapterOrder of getOrderedMarkdownFiles: the targets of the manifest
\* lines of the index file
ChapterOrder(tree, indexFile) ==
    The({[i \in DOMAIN ls |-> ManifestTarget(ls[i])] :
            ls \in {ManifestLinesOf(tree[indexFile])}})

\* getOrderedMarkdownFiles without its look at index.md
getOrderedMarkdownFilesLexical(tree, dir) == LexicalFiles(tree, dir)

\* getOrderedMarkdownFiles(dir)
getOrderedMarkdownFiles(tree, dir) ==
    LET indexFile == join(dir, "index.md")
    IN  IF indexFile \in DOMAIN tree /\ ManifestLinesOf(tree[indexFile]) # << >>
        THEN The({[i \in DOMAIN chapterOrder |-> join(dir, chapterOrder[i])] :
                    chapterOrder \in {ChapterOrder(tree, indexFile)}})
        ELSE LexicalFiles(tree, dir)

\* getMarkdownFiles without the test of the leading dot
RECURSIVE getMarkdownFilesWithDots(_, _)
RECURSIVE WalkEntriesWithDots(_, _, _)
WalkEntriesWithDots(tree, dir, names) ==
    IF names = << >> THEN << >>
    ELSE LET file     == Head(names)
             fullPath == join(dir, file)
             found    == IF isDirectory(tree, fullPath)
                         THEN getMarkdownFilesWithDots(tree, fullPath)
                         ELSE IF extname(file) = ".md" THEN <<fullPath>>
                         ELSE << >>
         IN  found \o WalkEntriesWithDots(tree, dir, Tail(names))

getMarkdownFilesWithDots(tree, dir) == WalkEntriesWithDots(tree, dir, readdirSync(tree, dir))

\* getMarkdownFiles(dir): the .md files below dir in the order of the walk;
\* entries whose name starts with a dot are skipped
RECURSIVE getMarkdownFiles(_, _)
RECURSIVE WalkEntries(_, _, _)
WalkEntries(tree, dir, names) ==
    IF names = << >> THEN << >>
    ELSE LET file     == Head(names)
             fullPath == join(dir, file)
             found    == IF StartsWith(file, ".") THEN << >>
                         ELSE IF isDirectory(tree, fullPath)
                              THEN getMarkdownFiles(tree, fullPath)
                         ELSE IF extname(file) = ".md" THEN <<fullPath>>
                         ELSE << >>
         IN  found \o WalkEntries(tree, dir, Tail(names))

getMarkdownFiles(tree, dir) == WalkEntries(tree, dir, readdirSync(tree, dir))

(***************************************************************************)
(* The first level-1 heading of a markdown text.                           *)
(***************************************************************************)
\* the index of the last character of the line of text that holds index g
LineEnd(text, g) ==
    LET n == IndexOfFrom(text, "\n", g)
    IN  IF n = 0 THEN Len(text) ELSE n - 1

\* the index of the last character of text in from..to that is no line end,
\* 0 when there is none
RECURSIVE LastOnLine(_, _, _)
LastOnLine(text, from, to) ==
    IF to < from THEN 0
    ELSE IF Char(text, to) # "\n" THEN to
    ELSE LastOnLine(text, from, to - 1)

\* where group 1 of /^#\s+(.+)$/m starts when the match is tried at the '#'
\* at index i, 0 when it fails there: after the greedy white space (which
\* may run over line ends), else, backtracking, at the last character of
\* that white space that is no line end
H1GroupStart(text, i) ==
    LET e == SkipSpace(text, i + 1)
    IN  IF e = i + 1 THEN 0
        ELSE IF e <= Len(text) THEN e
        ELSE LastOnLine(text, i + 2, Len(text))

\* the first index at or after from where /^#\s+(.+)$/m matches, 0 for none
RECURSIVE H1MatchFrom(_, _)
H1MatchFrom(text, from) ==
    IF from > Len(text) THEN 0
    ELSE IF /\ Char(text, from) = "#"
            /\ (from = 1 \/ Char(text, from - 1) = "\n")
            /\ H1GroupStart(text, from) # 0
         THEN from
    ELSE H1MatchFrom(text, from + 1)

\* text.match(/^#\s+(.+)$/m) is not null
HasH1(text) == H1MatchFrom(text, 1) # 0

\* h1Match[1] of text.match(/^#\s+(.+)$/m)
H1Group(text) ==
    LET g == H1GroupStart(text, H1MatchFrom(text, 1))
    IN  SubSeq(text, g, LineEnd(text, g))

\* firstH1 of processMarkdownFiles
firstH1(markdown) == IF HasH1(markdown) THEN Trim(H1Group(markdown)) ELSE ""

(***************************************************************************)
(* Rendered HTML.  A fragment is the sequence of its elements in document  *)
(* order; an element has a tag, an id attribute (hasId says whether the    *)
(* attribute is there), its text content and, for a heading rendered by    *)
(* the anchor plugin, the href of the header link its text is wrapped in   *)
(* ("" for an element without header link).                                *)
(***************************************************************************)
Element(tag, hasId, id, text, link) ==
    [tag |-> tag, hasId |-> hasId, id |-> id, text |-> text, link |-> link]

\* text.toLowerCase().replace(/[^\w]+/g, '-'): slugify of the anchor plugin
\* and the id generateTocFromHtml derives
RECURSIVE SlugFrom(_, _, _)
SlugFrom(s, i, inRun) ==
    IF i > Len(s) THEN ""
    ELSE IF IsWordChar(Char(s, i)) THEN Char(s, i) \o SlugFrom(s, i + 1, FALSE)
    ELSE IF inRun THEN SlugFrom(s, i + 1, TRUE)
    ELSE "-" \o SlugFrom(s, i + 1, TRUE)

slugify(text) == SlugFrom(ToLowerCase(text), 1, FALSE)

\* the text a parser of HTML (or of the inline content of markdown) reads
\* from s: the character references &lt; &gt; and &amp; are decoded
RECURSIVE DecodeFrom(_, _)
DecodeFrom(s, i) ==
    IF i > Len(s) THEN ""
    ELSE IF OccursAt(s, i, "&lt;") THEN "<" \o DecodeFrom(s, i + 4)
    ELSE IF OccursAt(s, i, "&gt;") THEN ">" \o DecodeFrom(s, i + 4)
    ELSE IF OccursAt(s, i, "&amp;") THEN "&" \o DecodeFrom(s, i + 5)
    ELSE Char(s, i) \o DecodeFrom(s, i + 1)

DecodeEntities(s) == IF \E i \in 1..Len(s) : Char(s, i) = "&" THEN DecodeFrom(s, 1) ELSE s

\* the number of '#' a line starts with, counted from n on
RECURSIVE HashesFrom(_, _)
HashesFrom(line, n) ==
    IF n < Len(line) /\ Char(line, n + 1) = "#" THEN HashesFrom(line, n + 1) ELSE n

HashCount(line) == HashesFrom(line, 0)

\* is the line an ATX heading: one to six '#', then white space or the end
IsAtxHeading(line) ==
    LET n == HashCount(line)
    IN  n \in 1..6 /\ (n = Len(line) \/ IsSpace(Char(line, n + 1)))

\* is the line a raw HTML heading <hN>text</hN>
IsRawHeading(line) ==
    /\ Len(line) >= 9
    /\ OccursAt(line, 1, "<h") /\ IsDigit(Char(line, 3)) /\ Char(line, 4) = ">"
    /\ OccursAt(line, Len(line) - 4, "</h") /\ Char(line, Len(line)) = ">"

\* is the line a raw <style>text</style> element
IsRawStyle(line) ==
    Len(line) >= 15 /\ OccursAt(line, 1, "<style>") /\ OccursAt(line, Len(line) - 7, "</style>")

\* the slug the anchor plugin gives a heading: the first of slug, slug-1,
\* slug-2, ... that no earlier heading of the page has
RECURSIVE UniqueSlug(_, _, _)
UniqueSlug(slug, used, i) ==
    LET cand == IF i = 0 THEN slug ELSE slug \o "-" \o Char(Digits, i + 1)
    IN  IF cand \in used /\ i < 9 THEN UniqueSlug(slug, used, i + 1) ELSE cand

\* originalRender on the lines of a text: an ATX heading becomes a heading
\* with the anchor plugin's id and header link, a raw HTML heading is kept
\* or style element is kept as it is (no id), any other line that is not
\* blank is a paragraph; the text
\* of an element is its textContent, with character references decoded
RECURSIVE RenderLines(_, _)
RenderLines(lines, used) ==
    IF lines = << >> THEN << >>
    ELSE LET line == Head(lines)
             n    == HashCount(line)
         IN  IF IsAtxHeading(line)
             THEN LET text == DecodeEntities(Trim(SubSeq(line, n + 1, Len(line))))
                      id   == UniqueSlug(slugify(text), used, 0)
                  IN  <<Element("h" \o Char(Digits, n + 1), TRUE, id, text, "#" \o id)>>
                          \o RenderLines(Tail(lines), used \cup {id})
             ELSE IF IsRawHeading(line)
             THEN <<Element(SubSeq(line, 2, 3), FALSE, "",
                            DecodeEntities(SubSeq(line, 5, Len(line) - 5)), "")>>
                          \o RenderLines(Tail(lines), used)
             ELSE IF IsRawStyle(line)
             THEN <<Element("style", FALSE, "", SubSeq(line, 8, Len(line) - 8), "")>>
                          \o RenderLines(Tail(lines), used)
             ELSE IF Trim(line) = "" THEN RenderLines(Tail(lines), used)
             ELSE <<Element("p", FALSE, "", line, "")>>
                          \o RenderLines(Tail(lines), used)

originalRender(markdown) == RenderLines(SplitLines(markdown), {})

\* The elements the parser of an HTML document puts into the head when they
\* come before any other content.
HeadTags == {"style", "script", "title", "meta", "link", "base"}

\* the body of the document parsed from a fragment (doc.body.innerHTML of
\* JSDOM, the body the sanitizer works on): the fragment without the
\* elements at its start that went into the head
RECURSIVE BodyInnerHtml(_)
BodyInnerHtml(html) ==
    IF html # << >> /\ Head(html).tag \in HeadTags THEN BodyInnerHtml(Tail(html))
    ELSE html

\* querySelectorAll('h1, h2, h3')
IsTocHeading(e) == e.tag \in {"h1", "h2", "h3"}

\* the TOC markup: the list of links, the "No table of contents available"
\* notice, or the empty string
TocList(items) == [kind |-> "list", items |-> items]

TocNotice == [kind |-> "notice", items |-> << >>]

TocNone == [kind |-> "none", items |-> << >>]

\* the pieces of text from index from on that its occurrences of the start
\* tag <li> separate
RECURSIVE SplitAtListItem(_, _, _)
SplitAtListItem(text, from, i) ==
    IF i > Len(text) THEN <<SubSeq(text, from, Len(text))>>
    ELSE IF OccursAt(text, i, "<li>")
         THEN <<SubSeq(text, from, i - 1)>> \o SplitAtListItem(text, i + 4, i + 4)
    ELSE SplitAtListItem(text, from, i + 1)

\* the list items the parser of HTML makes of the markup of one TOC entry,
\* <li class="toc-item toc-level-N"><a href="#id" class="toc-link">text</a></li>
\* with the text put in as it is: a start tag <li> in the text ends the item
\* and begins one without class (level 0), the link being opened again
ParsedTocItem(level, href, text) ==
    The({[k \in DOMAIN pieces |->
            [level |-> IF k = 1 THEN level ELSE 0, href |-> href, text |-> pieces[k]]] :
         pieces \in {IF \E i \in 1..Len(text) : Char(text, i) = "<"
                     THEN SplitAtListItem(text, 1, 1) ELSE <<text>>}})

\* DOMPurify.sanitize(tocHtml): the list items of the markup put together
\* entry by entry, as the parser reads them
RECURSIVE SanitizeTocHtml(_)
SanitizeTocHtml(entries) ==
    IF entries = << >> THEN << >>
    ELSE ParsedTocItem(Head(entries).level, Head(entries).href, Head(entries).text)
            \o SanitizeTocHtml(Tail(entries))

\* heading.id || text.toLowerCase().replace(/[^\w]+/g, '-')
HeadingAnchor(e) == IF e.id # "" THEN e.id ELSE slugify(e.text)

\* the heading after "if (!heading.id) heading.id = id"
PatchHeading(e) ==
    IF e.id = "" THEN [e EXCEPT !.hasId = TRUE, !.id = HeadingAnchor(e)] ELSE e

\* the result of generateTocFromHtml for a fragment and its headings
TocOfHeadings(html, headings) ==
    IF Len(headings) = 0
    THEN [tocHtml |-> TocNotice, tocData |-> << >>, updatedHtml |-> html]
    ELSE [tocHtml |-> TocList(SanitizeTocHtml([i \in DOMAIN headings |->
                        [level |-> DigitVal(Char(headings[i].tag, 2)),
                         href  |-> "#" \o HeadingAnchor(headings[i]),
                         text  |-> headings[i].text]])),
          tocData |-> [i \in DOMAIN headings |->
                        [level   |-> DigitVal(Char(headings[i].tag, 2)),
                         content |-> headings[i].text,
                         anchor  |-> HeadingAnchor(headings[i])]],
          updatedHtml |-> The({[i \in DOMAIN body |->
                                    IF IsTocHeading(body[i]) THEN PatchHeading(body[i])
                                    ELSE body[i]] : body \in {BodyInnerHtml(html)}})]

\* the try block of generateTocFromHtml
generateTocFromHtml(html) ==
    The({The({TocOfHeadings(h, hs) : hs \in {SelectSeq(h, IsTocHeading)}}) : h \in {html}})

\* a catch block that returns what the try block was to return
TocCaughtPatched(html) == generateTocFromHtml(html)

\* what generateTocFromHtml returns from its catch block
TocCaught(html) == [tocHtml |-> TocNone, tocData |-> << >>, updatedHtml |-> html]

\* updatedHtml.replace('[[toc]]', currentTocHtml): the first paragraph that
\* is the placeholder becomes the TOC markup
TocPlaceholders(html) ==
    {i \in DOMAIN html : html[i].tag = "p" /\ html[i].text = "[[toc]]"}

ReplaceTocPlaceholder(html) ==
    IF TocPlaceholders(html) = {} THEN html
    ELSE LET p == CHOOSE i \in TocPlaceholders(html) :
                        \A j \in TocPlaceholders(html) : i <= j
         IN  [html EXCEPT ![p] = Element("toc", FALSE, "", "", "")]

\* md.render as the script redefines it: the TOC of the rendered text and
\* the HTML with the ids generateTocFromHtml added; throws says whether the
\* try block of generateTocFromHtml throws on this text
mdRender(markdown, throws) ==
    The({[tocHtml |-> toc.tocHtml, tocData |-> toc.tocData,
          html |-> ReplaceTocPlaceholder(toc.updatedHtml)] :
            toc \in {IF throws THEN TocCaught(originalRender(markdown))
                     ELSE generateTocFromHtml(originalRender(markdown))}})

\* Names that are properties of the document or of a form element.  The
\* sanitizer (SANITIZE_DOM, on by default) removes an id attribute whose
\* value is one of them.
ClobberingNames ==
    {"title", "body", "head", "links", "forms", "images", "location", "cookie",
     "children", "name", "action", "method", "target", "length", "elements"}

\* DOMPurify.sanitize on a rendered fragment
Sanitize(html) ==
    The({[i \in DOMAIN h |->
            IF h[i].hasId /\ h[i].id \in ClobberingNames
            THEN [h[i] EXCEPT !.hasId = FALSE, !.id = ""]
            ELSE h[i]] : h \in {BodyInnerHtml(html)}})
(***************************************************************************)
(* Navigation.                                                             *)
(***************************************************************************)
\* parseInt(a.match(/\d+/)?.[0] || 0)
SortNumber(a) == ParseDigits(FirstDigitRun(a))

\* InsertByNumber with x put in front of the entries of its number: a sort
\* that is not stable
RECURSIVE InsertBeforeEqualNumbers(_, _)
InsertBeforeEqualNumbers(sorted, x) ==
    IF sorted = << >> THEN <<x>>
    ELSE IF SortNumber(Head(sorted)) < SortNumber(x)
         THEN <<Head(sorted)>> \o InsertBeforeEqualNumbers(Tail(sorted), x)
    ELSE <<x>> \o sorted

\* x put into a list sorted by SortNumber, behind the entries of its number
RECURSIVE InsertByNumber(_, _)
InsertByNumber(sorted, x) ==
    IF sorted = << >> THEN <<x>>
    ELSE IF SortNumber(Head(sorted)) <= SortNumber(x)
         THEN <<Head(sorted)>> \o InsertByNumber(Tail(sorted), x)
    ELSE <<x>> \o sorted

\* list.sort((a, b) => numA - numB): a stable sort by SortNumber
RECURSIVE SortByNumber(_)
SortByNumber(list) ==
    IF list = << >> THEN << >>
    ELSE InsertByNumber(SortByNumber(SubSeq(list, 1, Len(list) - 1)), list[Len(list)])

\* list.indexOf(x) + 1: the first position of x, 0 when x is no member
IndexOf(list, x) ==
    IF \E i \in DOMAIN list : list[i] = x
    THEN CHOOSE i \in DOMAIN list : list[i] = x /\ \A j \in 1..(i - 1) : list[j] # x
    ELSE 0

\* list.find(pred)'s position: the first entry whose base name is (is not,
\* when same is FALSE) index.md; 0 when there is none
FindIndexMd(list, same) ==
    LET I == {i \in DOMAIN list : (basename(list[i]) = "index.md") = same}
    IN  IF I = {} THEN 0 ELSE CHOOSE i \in I : \A j \in I : i <= j

\* The three navigation fragments of a page: an anchor, a disabled
\* placeholder (a span of class nav-link-disabled) or the empty string.
Link(href, label) == [kind |-> "link", href |-> href, label |-> label]

Disabled(label) == [kind |-> "disabled", href |-> "", label |-> label]

NoFragment == [kind |-> "empty", href |-> "", label |-> ""]

\* HtmlName with the path of the source file kept in front of the name
HtmlNameWithPath(f) == join(dirname(f), basenameExt(f, ".md") \o ".html")

\* path.basename(f, '.md') + '.html'
HtmlName(f) == basenameExt(f, ".md") \o ".html"

\* prevLink, tocLink and nextLink of the page of an index.md
IndexNavLinks(filesInDir) ==
    IF Len(filesInDir) > 1
    THEN LET firstChapter == FindIndexMd(filesInDir, FALSE)
         IN  [prev |-> Disabled(""),
              toc  |-> Disabled("Book Index"),
              next |-> IF firstChapter # 0
                       THEN Link(HtmlName(filesInDir[firstChapter]), "First chapter")
                       ELSE Disabled("No chapters")]
    ELSE [prev |-> NoFragment, toc |-> NoFragment, next |-> NoFragment]

\* ChapterNavLinks with the next link taken from the entry two places on
\* (the last entry gets "End", the one before it a link past its neighbour)
ChapterNavLinksSkipping(filesInDir, currentIndex) ==
    [prev |-> IF currentIndex > 1
              THEN Link(HtmlName(filesInDir[currentIndex - 1]),
                        IF basename(filesInDir[currentIndex - 1]) = "index.md"
                        THEN "Contents" ELSE "Previous")
              ELSE Disabled(""),
     next |-> IF currentIndex < Len(filesInDir)
              THEN Link(HtmlName(filesInDir[Min(currentIndex + 2, Len(filesInDir))]), "Next")
              ELSE Disabled("End"),
     toc  |-> IF FindIndexMd(filesInDir, TRUE) # 0
              THEN Link("index.html", "Table of Contents")
              ELSE Disabled("TOC")]

\* ChapterNavLinks with one label, "Previous", for every previous link
ChapterNavLinksUnlabelled(filesInDir, currentIndex) ==
    [prev |-> IF currentIndex > 1
              THEN Link(HtmlName(filesInDir[currentIndex - 1]), "Previous")
              ELSE Disabled(""),
     next |-> IF currentIndex < Len(filesInDir)
              THEN Link(HtmlName(filesInDir[currentIndex + 1]), "Next")
              ELSE Disabled("End"),
     toc  |-> IF FindIndexMd(filesInDir, TRUE) # 0
              THEN Link("index.html", "Table of Contents")
              ELSE Disabled("TOC")]

\* prevLink, tocLink and nextLink of the page of any other chapter;
\* currentIndex is the position of the chapter in filesInDir, 0 for none
ChapterNavLinks(filesInDir, currentIndex) ==
    [prev |-> IF currentIndex > 1
              THEN Link(HtmlName(filesInDir[currentIndex - 1]),
                        IF basename(filesInDir[currentIndex - 1]) = "index.md"
                        THEN "Contents" ELSE "Previous")
              ELSE Disabled(""),
     next |-> IF currentIndex < Len(filesInDir)
              THEN Link(HtmlName(filesInDir[currentIndex + 1]), "Next")
              ELSE Disabled("End"),
     toc  |-> IF FindIndexMd(filesInDir, TRUE) # 0
              THEN Link("index.html", "Table of Contents")
              ELSE Disabled("TOC")]

NavLinks(filePath, filesInDir) ==
    IF basename(filePath) = "index.md"
    THEN IndexNavLinks(filesInDir)
    ELSE ChapterNavLinks(filesInDir, IndexOf(filesInDir, filePath))

(***************************************************************************)
(* Pages.  A file under docs/ is what the placeholders of the template     *)
(* were replaced with, or the list of books of the library index.          *)
(***************************************************************************)
\* outputFile without the directory of the chapter below the content root
OutputFileFlat(filePath) == join("docs", HtmlName(filePath))

\* outputFile of processMarkdownFiles
OutputFile(filePath) ==
    join(join("docs", dirname(relative("data", filePath))), HtmlName(filePath))

\* the page title: firstH1 || path.basename(filePath, '.md')
PageTitle(filePath, markdown) ==
    IF firstH1(markdown) # "" THEN firstH1(markdown) ELSE basenameExt(filePath, ".md")

\* what processMarkdownFiles computes for a chapter: the values its chain of
\* replace calls is given
ChapterPage(title, nav, tocHtml, tocData, body) ==
    [kind |-> "chapter", title |-> title,
     prev |-> nav.prev, toc |-> nav.toc, next |-> nav.next,
     tocHtml |-> tocHtml, tocData |-> tocData, body |-> body, books |-> << >>,
     pieces |-> << >>]

\* The template as the sequence of the placeholder tokens that stand in it,
\* in the order of the file; the markup between them is the same on every
\* page.  templates/universal_book_template.html has no {%PAGE_TOC%} and no
\* {%PAGE_TOC_DATA%}.
UniversalTemplate ==
    <<"{{page_title}}", "{%TAILWIND_CSS%}", "{{page_title}}",
      "{{nav_previous_link}}", "{{nav_toc_link}}", "{{nav_next_link}}",
      "{%MARKDOWN_CONTENT%}",
      "{{nav_previous_link}}", "{{nav_toc_link}}", "{{nav_next_link}}">>

\* a template that holds each of the eight tokens twice
RepeatingTemplate ==
    <<"{{page_title}}", "{%TAILWIND_CSS%}", "{%TAILWIND_CSS%}", "{{page_title}}",
      "{{nav_previous_link}}", "{{nav_toc_link}}", "{{nav_next_link}}",
      "{%PAGE_TOC%}", "{%PAGE_TOC_DATA%}", "{%MARKDOWN_CONTENT%}",
      "{%PAGE_TOC%}", "{%PAGE_TOC_DATA%}", "{%MARKDOWN_CONTENT%}",
      "{{nav_previous_link}}", "{{nav_toc_link}}", "{{nav_next_link}}">>

\* the tokens of a template
TemplatePlaceholders(tpl) == {tpl[i] : i \in DOMAIN tpl}

\* finalHtml = template: no token has its value yet
Unfilled(tpl) == [i \in DOMAIN tpl |-> [token |-> tpl[i], filled |-> FALSE]]

\* html.replace('token', value), the pattern a string: the first occurrence
\* of the token gets the value
ReplaceFirst(html, token) ==
    LET I == {i \in DOMAIN html : html[i].token = token /\ ~html[i].filled}
    IN  IF I = {} THEN html
        ELSE [html EXCEPT ![CHOOSE i \in I : \A j \in I : i <= j].filled = TRUE]

\* html.replace(/token/g, value): every occurrence of the token gets the value
ReplaceAll(html, token) ==
    [i \in DOMAIN html |->
        IF html[i].token = token THEN [html[i] EXCEPT !.filled = TRUE] ELSE html[i]]

\* the replace calls of processMarkdownFiles in their order
Substitute(tpl) ==
    ReplaceAll(ReplaceAll(ReplaceAll(ReplaceAll(ReplaceAll(ReplaceAll(
        ReplaceFirst(ReplaceFirst(Unfilled(tpl), "{%TAILWIND_CSS%}"),
                     "{%MARKDOWN_CONTENT%}"),
        "{{page_title}}"), "{{nav_previous_link}}"), "{{nav_toc_link}}"),
        "{{nav_next_link}}"), "{%PAGE_TOC%}"), "{%PAGE_TOC_DATA%}")

\* what the file holds of the value of a placeholder: the value when an
\* occurrence of the placeholder got it, or nothing (none)
Replaced(html, placeholder, value, none) ==
    IF \E i \in DOMAIN html : html[i].token = placeholder /\ html[i].filled
    THEN value ELSE none

\* text.replace(pattern, value) for a pattern with the g flag, from index i
\* on: every occurrence of token in text is replaced by value, and what was
\* put in is not searched again
RECURSIVE ReplaceAllFrom(_, _, _, _)
ReplaceAllFrom(text, token, value, i) ==
    IF i > Len(text) THEN ""
    ELSE IF OccursAt(text, i, token)
         THEN value \o ReplaceAllFrom(text, token, value, i + Len(token))
    ELSE Char(text, i) \o ReplaceAllFrom(text, token, value, i + 1)

ReplaceAllIn(text, token, value) ==
    IF \E i \in 1..Len(text) : Char(text, i) = "{"
    THEN ReplaceAllFrom(text, token, value, 1) ELSE text

\* what String.prototype.replace puts in for a replacement string: $$ stands
\* for one $, and $& for the text that was matched
RECURSIVE ReplacementFrom(_, _, _)
ReplacementFrom(value, matched, i) ==
    IF i > Len(value) THEN ""
    ELSE IF OccursAt(value, i, "$$") THEN "$" \o ReplacementFrom(value, matched, i + 2)
    ELSE IF OccursAt(value, i, "$&") THEN matched \o ReplacementFrom(value, matched, i + 2)
    ELSE Char(value, i) \o ReplacementFrom(value, matched, i + 1)

ReplacementText(value, matched) ==
    IF \E i \in 1..Len(value) : Char(value, i) = "$"
    THEN ReplacementFrom(value, matched, 1) ELSE value

\* the markup of a navigation fragment, without its icon
NavMarkup(fragment) ==
    IF fragment.kind = "link"
    THEN "<a href=\"" \o fragment.href \o "\" class=\"nav-link\"><span>"
            \o fragment.label \o "</span></a>"
    ELSE IF fragment.kind = "disabled"
    THEN "<span class=\"nav-link-disabled\">" \o fragment.label \o "</span>"
    ELSE ""

\* the markup of the items of a TOC list
RECURSIVE TocItemsMarkup(_)
TocItemsMarkup(items) ==
    IF items = << >> THEN ""
    ELSE "<li><a href=\"" \o Head(items).href \o "\" class=\"toc-link\">"
            \o Head(items).text \o "</a></li>" \o TocItemsMarkup(Tail(items))

\* currentTocHtml as a string
TocMarkup(toc) ==
    IF toc.kind = "list" THEN "<div class=\"toc\"><ul>" \o TocItemsMarkup(toc.items) \o "</ul></div>"
    ELSE IF toc.kind = "notice"
    THEN "<div class=\"toc-empty-notice\"><p>No table of contents available</p></div>"
    ELSE ""

\* JSON.stringify(currentTocData)
RECURSIVE StringifyEntries(_)
StringifyEntries(entries) ==
    IF entries = << >> THEN ""
    ELSE "{\"level\":" \o Char(Digits, Head(entries).level + 1)
            \o ",\"content\":\"" \o Head(entries).content
            \o "\",\"anchor\":\"" \o Head(entries).anchor \o "\"}"
            \o (IF Len(entries) > 1 THEN "," ELSE "") \o StringifyEntries(Tail(entries))

Stringify(entries) == "[" \o StringifyEntries(entries) \o "]"

\* the six replace calls with the g flag, in their order, applied to a text
\* that is part of finalHtml when the call numbered from is made
LaterReplaced(text, page, from) ==
    The({The({The({The({The({
        IF from <= 6 THEN ReplaceAllIn(t5, "{%PAGE_TOC_DATA%}", Stringify(page.tocData)) ELSE t5 :
        t5 \in {IF from <= 5 THEN ReplaceAllIn(t4, "{%PAGE_TOC%}", TocMarkup(page.tocHtml)) ELSE t4}}) :
        t4 \in {IF from <= 4 THEN ReplaceAllIn(t3, "{{nav_next_link}}", NavMarkup(page.next)) ELSE t3}}) :
        t3 \in {IF from <= 3 THEN ReplaceAllIn(t2, "{{nav_toc_link}}", NavMarkup(page.toc)) ELSE t2}}) :
        t2 \in {IF from <= 2 THEN ReplaceAllIn(t1, "{{nav_previous_link}}", NavMarkup(page.prev)) ELSE t1}}) :
        t1 \in {IF from <= 1
                THEN ReplaceAllIn(text, "{{page_title}}", ReplacementText(page.title, "{{page_title}}"))
                ELSE text}})

\* the rendered body as the file holds it: put in for {%MARKDOWN_CONTENT%}
\* as a replacement string, then searched by the six calls that follow
BodyInFile(body, page) ==
    [i \in DOMAIN body |->
        IF \E k \in 1..Len(body[i].text) : Char(body[i].text, k) \in {"{", "$"}
        THEN [body[i] EXCEPT !.text =
                 LaterReplaced(ReplacementText(body[i].text, "{%MARKDOWN_CONTENT%}"), page, 1)]
        ELSE body[i]]

\* finalHtml: the file written for a chapter; pieces tells of every token of
\* the template whether its value stands in its place
finalHtml(tpl, page) ==
    The({[kind |-> "chapter",
          title |-> Replaced(html, "{{page_title}}",
                             LaterReplaced(ReplacementText(page.title, "{{page_title}}"), page, 2), ""),
          prev |-> Replaced(html, "{{nav_previous_link}}", page.prev, NoFragment),
          toc |-> Replaced(html, "{{nav_toc_link}}", page.toc, NoFragment),
          next |-> Replaced(html, "{{nav_next_link}}", page.next, NoFragment),
          tocHtml |-> Replaced(html, "{%PAGE_TOC%}", page.tocHtml, TocNone),
          tocData |-> Replaced(html, "{%PAGE_TOC_DATA%}", page.tocData, << >>),
          body |-> Replaced(html, "{%MARKDOWN_CONTENT%}", BodyInFile(page.body, page), << >>),
          books |-> << >>,
          pieces |-> html] : html \in {Substitute(tpl)}})

\* the library index: its only heading is the single line <h1 ...>Library</h1>
LibraryPage(books) ==
    [kind |-> "library", title |-> "All Books",
     prev |-> NoFragment, toc |-> NoFragment, next |-> NoFragment,
     tocHtml |-> TocNone, tocData |-> << >>,
     body |-> <<Element("h1", FALSE, "", "Library", "")>>, books |-> books,
     pieces |-> << >>]

\* the markup inside a heading
InnerHtml(e) ==
    IF e.link = "" THEN e.text
    ELSE "<a class='header-anchor' href='" \o e.link \o "'>" \o e.text \o "</a>"

\* group 1 of content.match(/<h1[^>]*>(.*?)<\/h1>/i) on a file of docs/, ""
\* when there is no match.  The h1 of the template spans three lines, which
\* (.*?) does not match; the first h1 on one line is the first of the body.
HtmlH1Group(page) ==
    LET H == {i \in DOMAIN page.body : page.body[i].tag = "h1"}
    IN  IF H = {} THEN ""
        ELSE InnerHtml(page.body[CHOOSE i \in H : \A j \in H : i <= j])

(***************************************************************************)
(* The library index.                                                      *)
(***************************************************************************)
\* dir.replace(/-/g, ' ').replace(/\b\w/g, c => c.toUpperCase())
RECURSIVE CapitalizeFrom(_, _, _)
CapitalizeFrom(s, i, atBoundary) ==
    IF i > Len(s) THEN ""
    ELSE LET c == IF Char(s, i) = "-" THEN " " ELSE Char(s, i)
         IN  (IF atBoundary /\ IsWordChar(c) THEN ToUpperChar(c) ELSE c)
                \o CapitalizeFrom(s, i + 1, ~IsWordChar(c))

Humanize(dir) == CapitalizeFrom(dir, 1, TRUE)

\* getBookName with the fallback reading the library index docs/index.html
\* in place of the index.html of the book
getBookNameFromLibrary(tree, out, bookPath, dirName) ==
    LET mdIndex   == join(bookPath, "index.md")
        htmlIndex == join("docs", "index.html")
    IN  IF mdIndex \in DOMAIN tree /\ HasH1(tree[mdIndex])
        THEN Trim(H1Group(tree[mdIndex]))
        ELSE IF htmlIndex \in DOMAIN out /\ HtmlH1Group(out[htmlIndex]) # ""
        THEN Trim(HtmlH1Group(out[htmlIndex]))
        ELSE ""

\* getBookName; "" stands for its null and for an empty name alike (the
\* caller tests the result with ||)
getBookName(tree, out, bookPath, dirName) ==
    LET mdIndex   == join(bookPath, "index.md")
        htmlIndex == join(join("docs", dirName), "index.html")
    IN  IF mdIndex \in DOMAIN tree /\ HasH1(tree[mdIndex])
        THEN Trim(H1Group(tree[mdIndex]))
        ELSE IF htmlIndex \in DOMAIN out /\ HtmlH1Group(out[htmlIndex]) # ""
        THEN Trim(HtmlH1Group(out[htmlIndex]))
        ELSE ""

\* bookDirs of generateAllBooksPage
BookDirs(tree) ==
    SelectSeq(readdirSync(tree, "data"),
              LAMBDA file : ~StartsWith(file, ".") /\ isDirectory(tree, join("data", file)))

\* books of generateAllBooksPage
Book(tree, out, dir) ==
    [name |-> IF getBookName(tree, out, join("data", dir), dir) # ""
              THEN getBookName(tree, out, join("data", dir), dir)
              ELSE Humanize(dir),
     path |-> dir,
     href |-> dir \o "/index.html"]

Books(tree, out) ==
    The({[i \in DOMAIN bookDirs |-> Book(tree, out, bookDirs[i])] :
            bookDirs \in {BookDirs(tree)}})

(***************************************************************************)
(* The content roots and output directories a build starts from.           *)
(***************************************************************************)
\* the tree with the files and texts of a set of <<path, text>> pairs
MakeTree(entries) ==
    [p \in {e[1] : e \in entries} |-> (CHOOSE e \in entries : e[1] = p)[2]]

NoFiles == MakeTree({})

\* the names of the chapter files of the book whose content varies
ChapterNames == {"a.md", "c2.md", "c10.md"}

\* the text of a chapter file
ChapterText(name) ==
    IF name = "a.md" THEN "# Title\n\nSome text.\n## Part One\n#### Detail"
    ELSE IF name = "c2.md" THEN "# Chapter 2\n<h2>Raw Heading</h2>\n[[toc]]"
    ELSE IF name = "c10.md" THEN "Some text without heading."
    ELSE "# " \o name

\* a bullet line of a manifest
BulletLine(indent, gap, label, target) ==
    indent \o "*" \o gap \o "[" \o label \o "](" \o target \o ")"

\* the lines an index.md of the varying book is made of: five bullet lines
\* (one of them naming a file that does not exist, one index.md itself) and
\* a list item with a dash, which is no manifest line
ManifestLineChoices ==
    {BulletLine("", " ", "A", "a.md"),
     BulletLine("  ", "\t", "C", "c2.md"),
     BulletLine("", " ", "D", "c10.md"),
     BulletLine("", " ", "G", "ghost.md"),
     BulletLine("", " ", "I", "index.md"),
     "- [A](a.md)"}

RECURSIVE JoinLines(_)
JoinLines(lines) ==
    IF lines = << >> THEN ""
    ELSE IF Len(lines) = 1 THEN lines[1]
    ELSE lines[1] \o "\n" \o JoinLines(Tail(lines))

\* the trees with one book directory, go or b2, of at most MaxFiles of the
\* chapter files
\* the index.md files of the varying book: none, or one of at most MaxLines
\* lines under a title
IndexChoices(dir) ==
    {{}} \cup
    {{<<"data/" \o dir \o "/index.md", JoinLines(<<"# Go Book">> \o lines)>>} :
        lines \in UNION {[1..k -> ManifestLineChoices] : k \in 0..MaxLines}}

VaryingTreesIn(dir) ==
    {MakeTree({<<"data/" \o dir \o "/" \o n, ChapterText(n)>> : n \in names}
              \cup index) :
        names \in {N \in SUBSET ChapterNames : Cardinality(N) <= MaxFiles},
        index \in IndexChoices(dir)} \ {NoFiles}

VaryingTrees == VaryingTreesIn("go") \cup VaryingTreesIn("b2")

\* chapter-1.md ... chapter-n.md in the directory dir
NumberedChapters(dir, n) ==
    {<<dir \o "/chapter-" \o (IF i < 10 THEN Char(Digits, i + 1)
                               ELSE "1" \o Char(Digits, i - 9)) \o ".md",
       "# Chapter">> : i \in 1..n}

\* Content roots with several books, with files outside a book and with
\* the manifests and names the varying book leaves out.
FixedTrees ==
    {MakeTree(NumberedChapters("data/go", 10)),
     MakeTree(NumberedChapters("data/book2", 10)),
     MakeTree(NumberedChapters("data/book2", 10)
              \cup {<<"data/book2/index.md", "# Book Two\n\nNo list here.">>}),
     MakeTree({<<"data/go/index.md", "# Go Book\n* [One](one.md)\n* [Two](two.md)">>,
               <<"data/go/one.md", "# One">>, <<"data/go/two.md", "# Two">>,
               <<"data/go/extra.md", "# Extra">>,
               <<"data/my-book/intro.md", "# Intro">>,
               <<"data/.specstory/notes.md", "# Notes">>}),
     MakeTree({<<"data/index.md", "# Root">>, <<"data/readme.md", "Read me">>,
               <<"data/solo/index.md", "<h1>Solo</h1>">>,
               <<"data/rust/index.md", "Rust\n* [One](one.md)">>,
               <<"data/rust/one.md", "# One">>}),
     MakeTree({<<"data/go/index.md", "# Go Book\n* [S](sub/s.md)\n* [A](./a.md)">>,
               <<"data/go/a.md", "# A">>, <<"data/go/sub/s.md", "# S">>,
               <<"data/go/sub/.cache/n.md", "# N">>,
               <<"data/b2/.hidden.md", "# Hidden">>,
               <<"data/b2/q.md", "#  \n<h3></h3>\n## !!!\n## !!!">>}),
     MakeTree({<<"data/go/index.md", "# Go Book\n* [E](.md)">>, <<"data/go/a.md", "# A">>,
               <<"data/ab/x.md", "# X">>}),
     MakeTree({<<"data/blank/index.md", "<h1>Real Title</h1>\n\n#  ">>,
               <<"data/blank/n.md", "# N">>}),
     MakeTree({<<"data/nav/index.md", "# Nav">>, <<"data/nav/chapter-1.md", "# First">>,
               <<"data/nav/chapter-2.md", "# Second">>,
               <<"data/plain/c.md", "# C">>, <<"data/plain/d.md", "# D">>}),
     MakeTree({<<"data/html/tags.md",
                 "### Lists\n# The &lt;li&gt; tag\n<h2>R &amp; D</h2>\n\n#### Deep">>,
               <<"data/html/styled.md", "<style>b</style>\n# Styled\n<h2>Raw</h2>">>,
               <<"data/html/up.md", "# Up">>,
               <<"data/html/void.md", "<style>b</style>\nNo heading here.">>}),
     MakeTree({<<"data/tpl/index.md", "# Templates">>,
               <<"data/tpl/tokens.md",
                 "# Tokens\nThe title is {{page_title}}.\n{{nav_previous_link}}\n{%TAILWIND_CSS%}\n{%MARKDOWN_CONTENT%}">>,
               <<"data/tpl/math.md", "# Math\n$$x$$ and {%PAGE_TOC_DATA%}">>})}

\* a page a former build left under docs/
StalePage(title) ==
    [kind |-> "chapter", title |-> title,
     prev |-> Disabled(""), toc |-> Disabled("Book Index"), next |-> Disabled("No chapters"),
     tocHtml |-> TocNone, tocData |-> << >>,
     body |-> <<Element("h1", TRUE, "old", title, "#old")>>, books |-> << >>,
     pieces |-> Substitute(UniversalTemplate)]

\* what docs/ holds when the first build starts
InitialDocs ==
    {NoFiles,
     MakeTree({<<"docs/my-book/index.html", StalePage("Old Title")>>,
               <<"docs/gone/index.html", StalePage("Gone")>>})}

(***************************************************************************)
(* The build.                                                              *)
(***************************************************************************)
\* What surrounds a build of a fixed content root: the template, the names
\* of the chapter files on whose rendered HTML the DOM parser throws, and
\* the names of the chapter files whose processing raises an error (a file
\* that cannot be read, an output file that cannot be written).
Environments ==
    {[template |-> UniversalTemplate, tocThrows |-> {}, failing |-> {}],
     [template |-> RepeatingTemplate, tocThrows |-> {}, failing |-> {}],
     [template |-> UniversalTemplate,
      tocThrows |-> {"chapter-3.md", "two.md", "index.md", "q.md"}, failing |-> {}],
     [template |-> RepeatingTemplate,
      tocThrows |-> {"chapter-2.md", "one.md", "tags.md"},
      failing |-> {"chapter-5.md", "two.md", "a.md"}]}

VARIABLES
    data,            \* the content root: path |-> text
    template,        \* the template read at the start of the script
    tocThrows,       \* the file names generateTocFromHtml throws on
    failing,         \* the file names whose processing raises an error
    docs,            \* the output directory: path |-> page
    pc,              \* where the script is
    run,             \* 1 for the first build, 2 for the build after it
    markdownFiles,   \* markdownFiles of processMarkdownFiles
    filesByDir,      \* filesByDir of processMarkdownFiles
    cursor,          \* the index in markdownFiles of the running forEach
    currentTocHtml,  \* the global currentTocHtml
    currentTocData,  \* the global currentTocData
    generated,       \* source path |-> the page this build wrote for it
    written,         \* the output paths in the order this build wrote them
    firstDocs,       \* the output directory as the first build left it
    calls,           \* directory |-> the calls of getOrderedMarkdownFiles in this build
    reported         \* the path the catch block printed, "" for none

vars == <<data, template, tocThrows, failing, docs, pc, run, markdownFiles, filesByDir,
          cursor, currentTocHtml, currentTocData, generated, written, firstDocs,
          calls, reported>>

\* what no step of a build changes
inputs == <<data, template, tocThrows, failing>>

Init ==
    /\ \/ /\ data \in VaryingTrees /\ docs = NoFiles
          /\ template = UniversalTemplate /\ tocThrows = {} /\ failing = {}
       \/ /\ data \in FixedTrees /\ docs \in InitialDocs
          /\ \E env \in Environments :
                /\ template = env.template
                /\ tocThrows = env.tocThrows
                /\ failing = env.failing
    /\ pc = "start"
    /\ run = 1
    /\ markdownFiles = << >>
    /\ filesByDir = NoFiles
    /\ cursor = 1
    /\ currentTocHtml = TocNone
    /\ currentTocData = << >>
    /\ generated = NoFiles
    /\ written = << >>
    /\ firstDocs = NoFiles
    /\ calls = NoFiles
    /\ reported = ""

\* f with the value v at x, whether or not x is in its domain
Put(f, x, v) == [y \in DOMAIN f \cup {x} |-> IF y = x THEN v ELSE f[y]]

\* calls with one more call for dir
Called(c, dir) == Put(c, dir, (IF dir \in DOMAIN c THEN c[dir] ELSE 0) + 1)

\* const markdownFiles = getMarkdownFiles('data')
Discover ==
    /\ pc = "start"
    /\ markdownFiles' = getMarkdownFiles(data, "data")
    /\ pc' = IF markdownFiles' = << >> THEN "library" ELSE "group"
    /\ cursor' = 1
    /\ UNCHANGED <<inputs, docs, run, filesByDir, currentTocHtml, currentTocData,
                   generated, written, firstDocs, calls, reported>>

\* Group without the test of filesByDir[dir]: the list is computed on
\* every turn
GroupUnmemoized ==
    /\ pc = "group"
    /\ \E dir \in {dirname(markdownFiles[cursor])} :
          /\ ~OrderThrows(data, dir)
          /\ filesByDir' = Put(filesByDir, dir, getOrderedMarkdownFiles(data, dir))
          /\ calls' = Called(calls, dir)
    /\ cursor' = IF cursor = Len(markdownFiles) THEN 1 ELSE cursor + 1
    /\ pc' = IF cursor = Len(markdownFiles) THEN "process" ELSE "group"
    /\ UNCHANGED <<inputs, docs, run, markdownFiles, currentTocHtml, currentTocData,
                   generated, written, firstDocs, reported>>

\* one turn of the first forEach: the list of the file's directory is
\* computed unless filesByDir has it
Group ==
    /\ pc = "group"
    /\ \E dir \in {dirname(markdownFiles[cursor])} :
          IF dir \in DOMAIN filesByDir
          THEN UNCHANGED <<filesByDir, calls>>
          ELSE /\ ~OrderThrows(data, dir)
               /\ filesByDir' = Put(filesByDir, dir, getOrderedMarkdownFiles(data, dir))
               /\ calls' = Called(calls, dir)
    /\ cursor' = IF cursor = Len(markdownFiles) THEN 1 ELSE cursor + 1
    /\ pc' = IF cursor = Len(markdownFiles) THEN "process" ELSE "group"
    /\ UNCHANGED <<inputs, docs, run, markdownFiles, currentTocHtml, currentTocData,
                   generated, written, firstDocs, reported>>

\* getOrderedMarkdownFiles throws outside of any try: the script ends with
\* an uncaught exception
GroupThrows ==
    /\ pc = "group"
    /\ dirname(markdownFiles[cursor]) \notin DOMAIN filesByDir
    /\ OrderThrows(data, dirname(markdownFiles[cursor]))
    /\ calls' = Called(calls, dirname(markdownFiles[cursor]))
    /\ pc' = "crashed"
    /\ UNCHANGED <<inputs, docs, run, markdownFiles, filesByDir, cursor, currentTocHtml,
                   currentTocData, generated, written, firstDocs, reported>>

\* Process with a render that sets the TOC globals only when the chapter has
\* a TOC entry: a chapter without one gets the TOC of the chapter before it
ProcessCarryingToc ==
    /\ pc = "process"
    /\ basename(markdownFiles[cursor]) \notin failing
    /\ \E filePath \in {markdownFiles[cursor]} :
       \E rendered \in {mdRender(data[filePath], basename(filePath) \in tocThrows)} :
       \E filesInDir \in {SortByNumber(filesByDir[dirname(filePath)])} :
       \E carried \in {IF rendered.tocData = << >>
                       THEN [tocHtml |-> currentTocHtml, tocData |-> currentTocData]
                       ELSE [tocHtml |-> rendered.tocHtml, tocData |-> rendered.tocData]} :
       \E page \in {ChapterPage(PageTitle(filePath, data[filePath]),
                                NavLinks(filePath, filesInDir),
                                carried.tocHtml, carried.tocData,
                                Sanitize(rendered.html))} :
          /\ currentTocHtml' = carried.tocHtml
          /\ currentTocData' = carried.tocData
          /\ filesByDir' = [filesByDir EXCEPT ![dirname(filePath)] = filesInDir]
          /\ docs' = Put(docs, OutputFile(filePath), finalHtml(template, page))
          /\ generated' = Put(generated, filePath, page)
          /\ written' = Append(written, OutputFile(filePath))
    /\ cursor' = IF cursor = Len(markdownFiles) THEN 1 ELSE cursor + 1
    /\ pc' = IF cursor = Len(markdownFiles) THEN "library" ELSE "process"
    /\ UNCHANGED <<inputs, run, markdownFiles, firstDocs, calls, reported>>

\* one turn of the second forEach: a chapter is rendered, its links are
\* computed on the list of its directory, sorted in place, and its page is
\* written
Process ==
    /\ pc = "process"
    /\ basename(markdownFiles[cursor]) \notin failing
    /\ \E filePath \in {markdownFiles[cursor]} :
       \E rendered \in {mdRender(data[filePath], basename(filePath) \in tocThrows)} :
       \E filesInDir \in {SortByNumber(filesByDir[dirname(filePath)])} :
       \E page \in {ChapterPage(PageTitle(filePath, data[filePath]),
                                NavLinks(filePath, filesInDir),
                                rendered.tocHtml, rendered.tocData,
                                Sanitize(rendered.html))} :
          /\ currentTocHtml' = rendered.tocHtml
          /\ currentTocData' = rendered.tocData
          /\ filesByDir' = [filesByDir EXCEPT ![dirname(filePath)] = filesInDir]
          /\ docs' = Put(docs, OutputFile(filePath), finalHtml(template, page))
          /\ generated' = Put(generated, filePath, page)
          /\ written' = Append(written, OutputFile(filePath))
    /\ cursor' = IF cursor = Len(markdownFiles) THEN 1 ELSE cursor + 1
    /\ pc' = IF cursor = Len(markdownFiles) THEN "library" ELSE "process"
    /\ UNCHANGED <<inputs, run, markdownFiles, firstDocs, calls, reported>>

\* ProcessThrows with the catch block going on to the next chapter in place
\* of ending the script
ProcessThrowsAndSkips ==
    /\ pc = "process"
    /\ basename(markdownFiles[cursor]) \in failing
    /\ reported' = markdownFiles[cursor]
    /\ cursor' = IF cursor = Len(markdownFiles) THEN 1 ELSE cursor + 1
    /\ pc' = IF cursor = Len(markdownFiles) THEN "library" ELSE "process"
    /\ UNCHANGED <<inputs, docs, run, markdownFiles, filesByDir, currentTocHtml,
                   currentTocData, generated, written, firstDocs, calls>>

\* one turn of the second forEach in which an error is raised, on reading
\* the file (nothing is done yet) or on writing the page (the render has
\* set the TOC globals and the list is sorted): the catch block prints the
\* path and process.exit(1) ends the script
ProcessThrows ==
    /\ pc = "process"
    /\ basename(markdownFiles[cursor]) \in failing
    /\ reported' = markdownFiles[cursor]
    /\ pc' = "exited"
    /\ \E stage \in {"read", "write"} :
          IF stage = "read"
          THEN UNCHANGED <<currentTocHtml, currentTocData, filesByDir>>
          ELSE \E filePath \in {markdownFiles[cursor]} :
               \E rendered \in {mdRender(data[filePath], basename(filePath) \in tocThrows)} :
                  /\ currentTocHtml' = rendered.tocHtml
                  /\ currentTocData' = rendered.tocData
                  /\ filesByDir' = [filesByDir EXCEPT ![dirname(filePath)] =
                                        SortByNumber(filesByDir[dirname(filePath)])]
    /\ UNCHANGED <<inputs, docs, run, markdownFiles, cursor, generated, written,
                   firstDocs, calls>>

\* generateAllBooksPage()
GenerateAllBooksPage ==
    /\ pc = "library"
    /\ docs' = Put(docs, "docs/index.html", LibraryPage(Books(data, docs)))
    /\ written' = Append(written, "docs/index.html")
    /\ pc' = "done"
    /\ UNCHANGED <<inputs, run, markdownFiles, filesByDir, cursor, currentTocHtml,
                   currentTocData, generated, firstDocs, calls, reported>>

\* the script is run again on the same content root; docs/ is as the first
\* build left it
Rebuild ==
    /\ pc = "done"
    /\ run = 1
    /\ run' = 2
    /\ firstDocs' = docs
    /\ pc' = "start"
    /\ markdownFiles' = << >>
    /\ filesByDir' = NoFiles
    /\ cursor' = 1
    /\ currentTocHtml' = TocNone
    /\ currentTocData' = << >>
    /\ generated' = NoFiles
    /\ written' = << >>
    /\ calls' = NoFiles
    /\ UNCHANGED <<inputs, docs, reported>>

Next ==
    \/ Discover
    \/ Group
    \/ GroupThrows
    \/ Process
    \/ ProcessThrows
    \/ GenerateAllBooksPage
    \/ Rebuild

Spec == Init /\ [][Next]_vars

(***************************************************************************)
(* Properties of the build.                                                *)
(***************************************************************************)
IsIndexMd(p) == basename(p) = "index.md"

\* the name of the file the page of a chapter is written to
OutputName(p) == basename(OutputFile(p))

\* is the fragment an anchor to href
LinksTo(fragment, href) == fragment.kind = "link" /\ fragment.href = href

\* the pairs <<dir, i>> of a directory and a position whose entry and the one
\* after it both have a page
AdjacentPages ==
    {d \in {<<dir, i>> : dir \in DOMAIN filesByDir, i \in 1..(Cardinality(DOMAIN data) + MaxLines)} :
        /\ d[2] < Len(filesByDir[d[1]])
        /\ filesByDir[d[1]][d[2]] \in DOMAIN generated
        /\ filesByDir[d[1]][d[2] + 1] \in DOMAIN generated}

\* C1 as stated: for every two chapters A and B adjacent in the list of their
\* directory (index.md at any position and repeated entries included), the
\* next link of A's page names B's page and the previous link of B's page
\* names A's page.
C1_NavigationSymmetry ==
    pc = "done" =>
        \A d \in AdjacentPages :
            LET A == filesByDir[d[1]][d[2]]
                B == filesByDir[d[1]][d[2] + 1]
            IN  /\ LinksTo(generated[A].next, OutputName(B))
                /\ LinksTo(generated[B].prev, OutputName(A))

\* the adjacent pairs the amended C1 is about: both entries are files of the
\* directory of the list and stand at their first place in the list, B is
\* not index.md, and A is index.md only as the first entry
SymmetricPairs ==
    {d \in AdjacentPages :
        LET list == filesByDir[d[1]]
            i    == d[2]
        IN  /\ dirname(list[i]) = d[1] /\ dirname(list[i + 1]) = d[1]
            /\ IndexOf(list, list[i]) = i
            /\ IndexOf(list, list[i + 1]) = i + 1
            /\ ~IsIndexMd(list[i + 1])
            /\ (IsIndexMd(list[i]) => i = 1)}

\* C1 amended: navigation symmetry for adjacent chapters A at i and B at
\* i + 1 of the resolved list of a directory when A and B are files of that
\* directory, i and i + 1 are the first positions of A and B in the list, B
\* is not index.md and A is index.md only at the first position: the next
\* link of A's page names B's page and the previous link of B's page names
\* A's page.
C1_SymmetryAtFirstPositions ==
    pc = "done" =>
        \A d \in SymmetricPairs :
            LET A == filesByDir[d[1]][d[2]]
                B == filesByDir[d[1]][d[2] + 1]
            IN  /\ LinksTo(generated[A].next, OutputName(B))
                /\ LinksTo(generated[B].prev, OutputName(A))

\* a finished build with two adjacent chapters, neither of them index.md,
\* in a list that the numeric sort has reordered
C1_Witness ==
    /\ pc = "done"
    /\ \E d \in SymmetricPairs :
          /\ ~IsIndexMd(filesByDir[d[1]][d[2]])
          /\ filesByDir[d[1]] # getOrderedMarkdownFiles(data, d[1])

\* C2: the page of every index.md has a disabled placeholder as its previous
\* fragment and as its toc fragment (never an anchor, never the empty
\* string), whatever the length of the list of its directory.
C2_IndexPagePlaceholders ==
    \A f \in DOMAIN generated :
        IsIndexMd(f) =>
            /\ generated[f].prev.kind = "disabled"
            /\ generated[f].toc.kind = "disabled"

\* the entries of a list that are not index.md
ChaptersOf(list) == SelectSeq(list, LAMBDA f : ~IsIndexMd(f))

\* C3: the next fragment of the page of every index.md is a link to the
\* .html name of the first entry of the list that is not index.md when there
\* is such an entry, and the disabled placeholder "No chapters" otherwise,
\* for a list of any length.
C3_IndexPageNext ==
    \A f \in DOMAIN generated :
        IsIndexMd(f) =>
            LET chapters == ChaptersOf(filesByDir[dirname(f)])
            IN  IF chapters # << >>
                THEN LinksTo(generated[f].next, OutputName(chapters[1]))
                ELSE generated[f].next = Disabled("No chapters")

\* C4: the toc fragment of the page of every chapter other than index.md is
\* a link to index.html if and only if the directory of the chapter holds a
\* file index.md, and a disabled placeholder otherwise, whether or not
\* index.md is an entry of the list.
C4_TocLinkIffIndexExists ==
    \A f \in DOMAIN generated :
        ~IsIndexMd(f) =>
            IF join(dirname(f), "index.md") \in DOMAIN data
            THEN LinksTo(generated[f].toc, "index.html")
            ELSE generated[f].toc.kind = "disabled"

\* The bullet lines "<indent>*<gap>[<label>](<target>)" of a manifest, taken
\* apart: each such line with the target it names.
BulletTargets ==
    {<<BulletLine(indent, gap, label, target), target>> :
        indent \in {"", "  "}, gap \in {" ", "\t"},
        label \in {"A", "C", "D", "G", "I", "S", "One", "Two"},
        target \in {"a.md", "c2.md", "c10.md", "ghost.md", "index.md", "one.md",
                    "two.md", "sub/s.md", "./a.md"}}

BulletTarget ==
    [line \in {b[1] : b \in BulletTargets} |->
        (CHOOSE b \in BulletTargets : b[1] = line)[2]]

\* the targets of the bullet lines among lines, in the order of the lines
RECURSIVE TargetsInOrder(_)
TargetsInOrder(lines) ==
    IF lines = << >> THEN << >>
    ELSE (IF Head(lines) \in DOMAIN BulletTarget
          THEN <<BulletTarget[Head(lines)]>> ELSE << >>) \o TargetsInOrder(Tail(lines))

\* the .md files of dir
MdFilesOf(dir) == {f \in DOMAIN data : dirname(f) = dir /\ EndsWith(f, ".md")}

\* is list the .md files of dir in lexical order
IsLexicalOrder(dir, list) ==
    /\ {list[i] : i \in DOMAIN list} = MdFilesOf(dir)
    /\ \A i \in 1..(Len(list) - 1) : StrLess(list[i], list[i + 1])

\* is list what C5 says getOrderedMarkdownFiles(dir) returns
IsResolvedOrder(dir, list) ==
    LET indexFile == join(dir, "index.md")
        targets   == IF indexFile \in DOMAIN data
                     THEN TargetsInOrder(SplitLines(data[indexFile]))
                     ELSE << >>
    IN  IF targets # << >>
        THEN list = [i \in DOMAIN targets |-> join(dir, targets[i])]
        ELSE IsLexicalOrder(dir, list)

\* the lists of filesByDir are as getOrderedMarkdownFiles returned them: no
\* page has been generated yet, so no list has been re-sorted
ListsAsReturned == pc = "group" \/ (pc = "process" /\ cursor = 1)

\* C5: what getOrderedMarkdownFiles(dir) returns is, when dir/index.md
\* exists and has a bullet line with a link to an .md target, exactly the
\* targets of those lines in document order (as paths in dir; files of dir
\* that are not listed are left out), and otherwise all .md files of dir in
\* lexical order.
C5_ManifestPrecedence ==
    ListsAsReturned =>
        \A dir \in DOMAIN filesByDir : IsResolvedOrder(dir, filesByDir[dir])

\* the lists are all computed, and one of them comes from a manifest of two
\* lines that leaves out a chapter file of the directory and is not in
\* lexical order
C5_Witness ==
    /\ pc = "process" /\ cursor = 1
    /\ \E dir \in DOMAIN filesByDir :
          /\ Len(filesByDir[dir]) = 2
          /\ StrLess(filesByDir[dir][2], filesByDir[dir][1])
          /\ \E f \in MdFilesOf(dir) :
                ~IsIndexMd(f) /\ \A i \in DOMAIN filesByDir[dir] : filesByDir[dir][i] # f

\* the name, without extension, of the i-th numbered chapter
ChapterName(i) ==
    "chapter-" \o (IF i < 10 THEN Char(Digits, i + 1) ELSE "1" \o Char(Digits, i - 9))

\* the directories, whatever their name, whose list is the lexical one of
\* exactly the files chapter-1.md ... chapter-10.md
NumberedBooks ==
    {dir \in DOMAIN filesByDir :
        MdFilesOf(dir) = {join(dir, ChapterName(i) \o ".md") : i \in 1..10}}

\* C6: in a book without a manifest whose files are chapter-1.md ...
\* chapter-10.md, whatever the path of its directory, the navigation follows
\* the number in the file name: the next link of chapter-i names
\* chapter-(i+1), for chapter-2 and for chapter-9 as for every other, the
\* last chapter has none, and the previous links mirror them.
C6_NumericOrdering ==
    pc = "done" =>
        \A dir \in NumberedBooks :
            /\ \A i \in 1..9 :
                  /\ LinksTo(generated[join(dir, ChapterName(i) \o ".md")].next,
                             ChapterName(i + 1) \o ".html")
                  /\ LinksTo(generated[join(dir, ChapterName(i + 1) \o ".md")].prev,
                             ChapterName(i) \o ".html")
            /\ generated[join(dir, ChapterName(10) \o ".md")].next.kind = "disabled"

\* a manifest target of dir, as getOrderedMarkdownFiles joins it to dir
ManifestPaths(dir) ==
    LET indexFile == join(dir, "index.md")
    IN  IF indexFile \in DOMAIN data
        THEN {join(dir, t) : t \in {BulletTarget[l] :
                l \in {x \in DOMAIN BulletTarget :
                         \E i \in DOMAIN SplitLines(data[indexFile]) :
                            SplitLines(data[indexFile])[i] = x}}}
        ELSE {}

\* C7: a manifest line whose target is no existing file never aborts the
\* build and is dropped from navigation: the path is no entry of the list of
\* the directory, and no page of the directory has a previous or next link
\* to its .html name.
C7_MissingTargetDropped ==
    /\ pc # "crashed"
    /\ \A dir \in DOMAIN filesByDir :
          \A t \in ManifestPaths(dir) \ DOMAIN data :
              /\ \A i \in DOMAIN filesByDir[dir] : filesByDir[dir][i] # t
              /\ \A f \in DOMAIN generated :
                    dirname(f) = dir =>
                        /\ ~LinksTo(generated[f].prev, OutputName(t))
                        /\ ~LinksTo(generated[f].next, OutputName(t))

\* C8: for every page and every entry of the TOC data of the page, the body
\* of the page, as the sanitizer left it, has an element whose id attribute
\* is the anchor of the entry.
C8_TocAnchorsInBody ==
    \A f \in DOMAIN generated :
        \A k \in DOMAIN generated[f].tocData :
            \E i \in DOMAIN generated[f].body :
                /\ generated[f].body[i].hasId
                /\ generated[f].body[i].id = generated[f].tocData[k].anchor

\* the top-level directories of the content root whose name does not start
\* with a dot; each holds a markdown file, as every file of a tree is one
TopLevelBooks ==
    {Head(Segments(relative("data", f))) :
        f \in {g \in DOMAIN data : Len(Segments(relative("data", g))) > 1}}
    \ {d \in {Head(Segments(relative("data", f))) : f \in DOMAIN data} : StartsWith(d, ".")}

\* C9: after the build the library index has exactly one entry for each of
\* the N top-level directories that hold a markdown file and are not
\* dot-prefixed, their hrefs are pairwise distinct and of the form
\* <dir>/index.html, and each href names a file that exists under docs/.
C9_LibraryEntriesResolve ==
    pc = "done" =>
        LET books == docs["docs/index.html"].books
        IN  /\ Len(books) = Cardinality(TopLevelBooks)
            /\ {books[i].href : i \in DOMAIN books} = {d \o "/index.html" : d \in TopLevelBooks}
            /\ \A i \in DOMAIN books : join("docs", books[i].href) \in DOMAIN docs

\* C10: the second of two builds in a row on the same content root, started
\* on the output directory the first one left, leaves every file of the
\* output directory as the first build left it.
C10_Idempotence == (pc = "done" /\ run = 2) => docs = firstDocs

\* the second build is done, it has written a chapter page and the library
\* index again, and the library index names a book that has no index.md by
\* the heading of an index.html found under docs/
C10_Witness ==
    /\ pc = "done" /\ run = 2
    /\ Len(written) > 1
    /\ \E i \in DOMAIN docs["docs/index.html"].books :
          LET book == docs["docs/index.html"].books[i]
          IN  /\ join(join("data", book.path), "index.md") \notin DOMAIN data
              /\ book.name # Humanize(book.path)

\* the chapter files under docs/ that this build has written
ChapterFilesWritten ==
    {OutputFile(f) : f \in DOMAIN generated} \cap {o \in DOMAIN docs : docs[o].kind = "chapter"}

\* C11: in every page written for a chapter, every occurrence in the
\* template of each of the eight placeholder tokens has been replaced by its
\* value, however often the template repeats the token.
C11_EveryOccurrenceReplaced ==
    \A o \in ChapterFilesWritten :
        \A i \in DOMAIN docs[o].pieces : docs[o].pieces[i].filled

\* the text after the '#' of the first line of a markdown text that is a
\* level-1 heading ('#', then white space or the end of the line), trimmed;
\* "" when the text has no such line or the heading is blank
RECURSIVE FirstHeadingText(_)
FirstHeadingText(lines) ==
    IF lines = << >> THEN ""
    ELSE IF HashCount(Head(lines)) = 1 /\ IsAtxHeading(Head(lines))
         THEN Trim(SubSeq(Head(lines), 2, Len(Head(lines))))
    ELSE FirstHeadingText(Tail(lines))

\* the title C12 gives the page of a chapter
IntendedTitle(f) ==
    IF FirstHeadingText(SplitLines(data[f])) # ""
    THEN FirstHeadingText(SplitLines(data[f]))
    ELSE basenameExt(f, ".md")

\* C12: the title of the page of every chapter is the trimmed text of the
\* first level-1 heading line of its markdown source when there is one (and
\* it is not blank), otherwise the file name without .md; it is never the
\* empty string.
C12_PageTitle ==
    \A f \in DOMAIN generated :
        /\ generated[f].title = IntendedTitle(f)
        /\ generated[f].title # ""

\* the directory names on the way from the content root to a file of it
DirectoriesAbove(f) ==
    LET segs == Segments(SubSeq(f, 6, Len(f)))
    IN  {segs[i] : i \in 1..(Len(segs) - 1)}

\* the chapter files of the content root: the .md files that are not
\* dot-prefixed and lie below no dot-prefixed directory
Chapters ==
    {f \in DOMAIN data :
        /\ EndsWith(f, ".md")
        /\ ~StartsWith(basename(f), ".")
        /\ \A d \in DirectoriesAbove(f) : ~StartsWith(d, ".")}

\* the path of f below data/, put below docs/ with .md replaced by .html
MirrorPath(f) == "docs/" \o SubSeq(f, 6, Len(f) - 3) \o ".html"

\* C13: a build that comes to its end has written one page for every
\* chapter file of the content root, listed in a manifest or not, at the
\* mirrored path below docs/, then the library index docs/index.html, and
\* nothing else.
C13_OnePagePerChapter ==
    pc = "done" =>
        /\ Len(written) = Cardinality(Chapters) + 1
        /\ {written[i] : i \in 1..(Len(written) - 1)} = {MirrorPath(f) : f \in Chapters}
        /\ written[Len(written)] = "docs/index.html"
        /\ \A f \in Chapters : MirrorPath(f) \in DOMAIN docs

\* a build is done that has written pages in more than one directory, one
\* of them for a chapter that the manifest of its directory does not list
C13_Witness ==
    /\ pc = "done"
    /\ \E f, g \in Chapters : dirname(f) # dirname(g)
    /\ \E f \in Chapters :
          /\ ManifestPaths(dirname(f)) # {}
          /\ f \notin ManifestPaths(dirname(f))
          /\ ~IsIndexMd(f)
          /\ MirrorPath(f) \in {written[i] : i \in DOMAIN written}

\* C14: once the catch block of a chapter has run, the script has ended with
\* process.exit(1) at that chapter, whose path it has printed: the pages of
\* the chapters before it in the processing order are written, no page of
\* that chapter or of a later one is, the library index is not written in
\* this run, and no further step is taken.
C14_FailFast ==
    reported # "" =>
        /\ pc = "exited"
        /\ reported = markdownFiles[cursor]
        /\ written = [i \in 1..(cursor - 1) |-> MirrorPath(markdownFiles[i])]
        /\ DOMAIN generated = {markdownFiles[i] : i \in 1..(cursor - 1)}
        /\ ~ENABLED Next

\* the script has ended at a chapter in the middle of the processing order:
\* pages are written before it and chapters are left after it
C14_Witness ==
    /\ pc = "exited"
    /\ cursor > 1
    /\ cursor < Len(markdownFiles)
    /\ Len(written) = cursor - 1

\* the chapter files on which generateTocFromHtml throws
TocFailures == {f \in DOMAIN data : basename(f) \in tocThrows}

\* C15: when generateTocFromHtml fails on the render of a chapter, it gives
\* back the empty TOC markup, no TOC entry and the rendered HTML as it was
\* (no id added); the page of the chapter is written all the same, the
\* failure is not what the catch block of the chapter loop reports, and the
\* build goes on to the chapters after it and to the library index.
C15_TocFailureRecoverable ==
    /\ \A f \in TocFailures \cap DOMAIN generated :
          /\ generated[f].tocHtml = TocNone
          /\ generated[f].tocData = << >>
          /\ generated[f].body = Sanitize(ReplaceTocPlaceholder(originalRender(data[f])))
          /\ MirrorPath(f) \in DOMAIN docs
    /\ \A f \in TocFailures : basename(f) \notin failing => reported # f
    /\ \A i \in DOMAIN markdownFiles :
          (pc \in {"library", "done"} \/ (pc = "process" /\ i < cursor))
              => markdownFiles[i] \in DOMAIN generated

\* the build is done; generateTocFromHtml has failed on a chapter that has a
\* heading for the TOC, and a chapter after it has its page
C15_Witness ==
    /\ pc = "done"
    /\ \E i \in DOMAIN markdownFiles :
          /\ markdownFiles[i] \in TocFailures
          /\ i < Len(markdownFiles)
          /\ \E k \in DOMAIN generated[markdownFiles[i]].body :
                IsTocHeading(generated[markdownFiles[i]].body[k])
          /\ markdownFiles[i + 1] \in DOMAIN generated

\* the directories of the discovered chapter files
ChapterDirs == {dirname(markdownFiles[i]) : i \in DOMAIN markdownFiles}

\* has the second forEach, where the navigation of a chapter is assembled,
\* begun
AssemblyBegun == pc \in {"process", "exited"} \/ generated # NoFiles

\* C16: within one build getOrderedMarkdownFiles is never called twice for a
\* directory, however many chapters the directory has, and when the
\* navigation of the first chapter is assembled it has been called, once,
\* for the directory of every discovered chapter.
C16_ListsComputedOnce ==
    /\ \A dir \in DOMAIN calls : calls[dir] = 1
    /\ AssemblyBegun => \A dir \in ChapterDirs : dir \in DOMAIN calls /\ calls[dir] = 1

\* all pages of a build are written; one directory has three chapters or
\* more, another directory has chapters too, and the list of each was
\* computed once
C16_Witness ==
    /\ pc = "library"
    /\ Cardinality(ChapterDirs) > 1
    /\ \E dir \in ChapterDirs :
          /\ Cardinality({i \in DOMAIN markdownFiles : dirname(markdownFiles[i]) = dir}) > 2
          /\ calls[dir] = 1

\* the files of the content root that lie below a dot-prefixed directory
BelowDotDirectory ==
    {f \in DOMAIN data : \E d \in DirectoriesAbove(f) : StartsWith(d, ".")}

\* C17: no file below a directory whose name starts with a dot, at any
\* depth, is discovered as a chapter, no page is written for it, its
\* directory gets no chapter list, and the library index has no entry for a
\* dot-prefixed directory.
C17_DotDirectoriesSkipped ==
    /\ \A f \in BelowDotDirectory :
          /\ \A i \in DOMAIN markdownFiles : markdownFiles[i] # f
          /\ f \notin DOMAIN generated
          /\ \A i \in DOMAIN written : written[i] # MirrorPath(f)
          /\ dirname(f) \notin DOMAIN filesByDir
    /\ pc = "done" =>
          \A i \in DOMAIN docs["docs/index.html"].books :
              ~StartsWith(docs["docs/index.html"].books[i].path, ".")

\* a build is done on a content root that has a dot-prefixed directory at
\* the top, or deeper, with a markdown file in it
C17_Witness ==
    /\ pc = "done"
    /\ \E f \in BelowDotDirectory : EndsWith(f, ".md") /\ Len(Segments(f)) > 3
    /\ Len(markdownFiles) > 1

\* the text of the first <h1> of the page docs/<dir>/index.html, trimmed; ""
\* when there is no such page or it has no <h1> with text
BuiltTitle(dir) ==
    LET page == "docs/" \o dir \o "/index.html"
    IN  IF page \in DOMAIN docs /\ \E i \in DOMAIN docs[page].body : docs[page].body[i].tag = "h1"
        THEN LET first == CHOOSE i \in DOMAIN docs[page].body :
                              /\ docs[page].body[i].tag = "h1"
                              /\ \A j \in 1..(i - 1) : docs[page].body[j].tag # "h1"
             IN  Trim(InnerHtml(docs[page].body[first]))
        ELSE ""

\* the text of the first level-1 heading of data/<dir>/index.md, "" when
\* there is no index.md or it has no such heading with text
SourceTitle(dir) ==
    LET index == "data/" \o dir \o "/index.md"
    IN  IF index \in DOMAIN data THEN FirstHeadingText(SplitLines(data[index])) ELSE ""

\* the name C18 gives the book of a top-level directory
IntendedBookName(dir) ==
    IF SourceTitle(dir) # "" THEN SourceTitle(dir)
    ELSE IF BuiltTitle(dir) # "" THEN BuiltTitle(dir)
    ELSE Humanize(dir)

\* C18: the library index names every top-level book directory, and none
\* else, by strict priority: by the first H1 of its index.md if that has
\* one, else by the first <h1> of the built docs/<dir>/index.html if that
\* file exists and has one, else by the humanized directory name; the name
\* is never empty.
C18_BookNamePriority ==
    pc = "done" =>
        LET books == docs["docs/index.html"].books
        IN  /\ {books[i].path : i \in DOMAIN books} = TopLevelBooks
            /\ \A i \in DOMAIN books :
                  /\ books[i].name # ""
                  /\ books[i].name = IntendedBookName(books[i].path)

\* the pages of chapters other than index.md that are found in the list of
\* their directory, each with the first position it has there
PlacedChapters ==
    {c \in {<<f, i>> : f \in DOMAIN generated, i \in 1..(Cardinality(DOMAIN data) + MaxLines)} :
        /\ ~IsIndexMd(c[1])
        /\ dirname(c[1]) \in DOMAIN filesByDir
        /\ c[2] <= Len(filesByDir[dirname(c[1])])
        /\ filesByDir[dirname(c[1])][c[2]] = c[1]
        /\ \A j \in 1..(c[2] - 1) : filesByDir[dirname(c[1])][j] # c[1]}

\* C19: on the page of a chapter other than index.md found at position i of
\* the list of its directory, previous is a link to the page of the entry
\* before it, labelled "Contents" exactly when that entry is index.md and
\* "Previous" otherwise, and a disabled placeholder at the first position;
\* next is a link to the page of the entry after it, and the disabled "End"
\* placeholder at the last position.
C19_ChapterPreviousAndNext ==
    \A c \in PlacedChapters :
        LET list == filesByDir[dirname(c[1])]
            i    == c[2]
            page == generated[c[1]]
        IN  /\ IF i = 1
               THEN page.prev.kind = "disabled"
               ELSE /\ LinksTo(page.prev, OutputName(list[i - 1]))
                    /\ page.prev.label = "Contents" <=> IsIndexMd(list[i - 1])
                    /\ page.prev.label = "Previous" <=> ~IsIndexMd(list[i - 1])
            /\ IF i < Len(list)
               THEN LinksTo(page.next, OutputName(list[i + 1]))
               ELSE page.next.kind = "disabled" /\ page.next.label = "End"

\* a build is complete with a chapter after index.md, a chapter that is
\* after another chapter and the last of its list, and a chapter at the first
\* position
C19_Witness ==
    /\ pc = "done"
    /\ \E c \in PlacedChapters : c[2] > 1 /\ generated[c[1]].prev.label = "Contents"
    /\ \E c \in PlacedChapters : c[2] > 1 /\ generated[c[1]].prev.label = "Previous"
                                  /\ generated[c[1]].next.label = "End"
    /\ \E c \in PlacedChapters : c[2] = 1 /\ generated[c[1]].prev.kind = "disabled"

\* s has the character c
HasChar(s, c) == \E i \in 1..Len(s) : Char(s, i) = c

\* the name of f within its directory
FileName(f) == CHOOSE n \in {SubSeq(f, i, Len(f)) : i \in 1..(Len(f) + 1)} :
                   ~HasChar(n, "/") /\ (Len(n) = Len(f) \/ Char(f, Len(f) - Len(n)) = "/")

\* the file name of the page of the chapter f: its name with a final .md
\* replaced by .html
PageName(f) ==
    IF EndsWith(FileName(f), ".md")
    THEN SubSeq(FileName(f), 1, Len(FileName(f)) - 3) \o ".html"
    ELSE FileName(f) \o ".html"

\* the previous, table-of-contents and next fragments of the pages generated
\* so far, each with the source file of its page
EmittedLinks ==
    {n \in {<<f, k>> : f \in DOMAIN generated, k \in {"prev", "toc", "next"}} :
        generated[n[1]][n[2]].kind = "link"}

\* C20: the href of every previous, next and table-of-contents link of every
\* page is the output file name of an entry of the list of the page's
\* directory (its base name with .md replaced by .html; index.html for the
\* table of contents); no href ends in .md, has a directory part or is a
\* source path.
C20_HrefIsOutputName ==
    \A n \in EmittedLinks :
        LET href == generated[n[1]][n[2]].href
            list == filesByDir[dirname(n[1])]
        IN  /\ \E j \in DOMAIN list : href = PageName(list[j])
            /\ n[2] = "toc" => href = "index.html"
            /\ EndsWith(href, ".html")
            /\ ~EndsWith(href, ".md")
            /\ ~HasChar(href, "/")
            /\ \A f \in DOMAIN data : href # f

\* a build is complete with a chapter page whose previous, next and
\* table-of-contents fragments are links, and an index.md page with a link
\* to its first chapter
C20_Witness ==
    /\ pc = "done"
    /\ \E f \in DOMAIN generated :
          /\ ~IsIndexMd(f)
          /\ \A k \in {"prev", "toc", "next"} : <<f, k>> \in EmittedLinks
    /\ \E f \in DOMAIN generated : IsIndexMd(f) /\ <<f, "next">> \in EmittedLinks

\* the manifest of dir in document order, as paths: the targets of the bullet
\* lines of dir/index.md; << >> when there is no manifest
ManifestOrder(dir) ==
    LET indexFile == join(dir, "index.md")
        targets   == IF indexFile \in DOMAIN data
                     THEN TargetsInOrder(SplitLines(data[indexFile]))
                     ELSE << >>
    IN  [i \in DOMAIN targets |-> join(dir, targets[i])]

\* C21: for a book with a manifest the list used for navigation (position
\* lookup and choice of neighbours) is the manifest in document order, for
\* any chapter file names: the sort before navigation never changes the
\* order of two manifest entries.
C21_ManifestOrderKept ==
    \A dir \in DOMAIN filesByDir :
        ManifestOrder(dir) # << >> => filesByDir[dir] = ManifestOrder(dir)

\* the directories of which a page has been generated in this build
DirsInProgress == {dirname(f) : f \in DOMAIN generated}

\* the fragment is a link to the page of the entry at position j of list, or
\* no link when list has no such position
PointsAt(fragment, list, j) ==
    IF j \in DOMAIN list THEN LinksTo(fragment, PageName(list[j]))
    ELSE fragment.kind # "link"

\* C22: within a build every chapter of a directory is positioned against
\* the same ordered list: the page a step generates for a chapter other than
\* index.md has its neighbours taken from the list, as the step leaves it, in
\* which the chapter's position is looked up, and once a page of a directory
\* has been generated no later step of the build changes the list of that
\* directory (the sort in place is stable and idempotent).
C22_OrderingConsistency ==
    [][run' = run =>
         /\ \A dir \in DirsInProgress :
               dir \in DOMAIN filesByDir' /\ filesByDir'[dir] = filesByDir[dir]
         /\ \A f \in DOMAIN generated' \ DOMAIN generated :
               LET list == filesByDir'[dirname(f)]
                   at   == {i \in DOMAIN list : list[i] = f}
               IN  ~IsIndexMd(f) /\ at # {} =>
                      LET i == CHOOSE k \in at : \A j \in at : k <= j
                      IN  /\ PointsAt(generated'[f].prev, list, i - 1)
                          /\ PointsAt(generated'[f].next, list, i + 1)]_vars

\* a build is complete in which the sort changed the list of a directory
\* that has two entries of the same number, and three pages of the directory
\* were generated
C22_Witness ==
    /\ pc = "done"
    /\ \E dir \in DirsInProgress :
          /\ filesByDir[dir] # getOrderedMarkdownFiles(data, dir)
          /\ \E i, j \in DOMAIN filesByDir[dir] :
                i < j /\ SortNumber(filesByDir[dir][i]) = SortNumber(filesByDir[dir][j])
          /\ Cardinality({f \in DOMAIN generated : dirname(f) = dir}) >= 3

\* C23: the ordered chapter list of every directory has no path twice, for
\* every content of the manifest, a manifest that names the same chapter
\* file on two lines included.
C23_NoDuplicatePaths ==
    \A dir \in DOMAIN filesByDir :
        \A i, j \in DOMAIN filesByDir[dir] :
            i # j => filesByDir[dir][i] # filesByDir[dir][j]

\* the H1, H2 and H3 elements of the fragment rendered from the chapter f, in
\* document order
TocHeadingsOf(f) ==
    SelectSeq(originalRender(data[f]), LAMBDA e : e.tag \in {"h1", "h2", "h3"})

\* the pages whose fragment has an H1-H3 heading and whose TOC extraction did
\* not fail
PagesWithToc ==
    {f \in DOMAIN generated : basename(f) \notin tocThrows /\ TocHeadingsOf(f) # << >>}

\* C24: for a fragment with at least one H1-H3 heading, generateTocFromHtml
\* returns exactly one TOC entry per H1, H2 or H3 element, in document order
\* (not grouped or sorted by level), each with its level in 1..3 and no entry
\* for H4 and deeper headings, and the TOC markup is one flat list with one
\* item per entry in the same order.
C24_OneEntryPerHeading ==
    \A f \in PagesWithToc :
        LET headings == TocHeadingsOf(f)
            entries  == generated[f].tocData
            markup   == generated[f].tocHtml
        IN  /\ Len(entries) = Len(headings)
            /\ \A i \in DOMAIN entries :
                  /\ entries[i].level \in 1..3
                  /\ "h" \o Char(Digits, entries[i].level + 1) = headings[i].tag
                  /\ entries[i].content = headings[i].text
            /\ markup.kind = "list"
            /\ Len(markup.items) = Len(entries)
            /\ \A i \in DOMAIN markup.items :
                  /\ i \in DOMAIN entries
                  /\ markup.items[i].level = entries[i].level
                  /\ markup.items[i].text = entries[i].content

\* the pages whose TOC extraction did not fail
PagesExtracted == {f \in DOMAIN generated : basename(f) \notin tocThrows}

\* the heading e as TOC extraction is to leave it: as it is when it has a
\* non-empty id, with the slug of its text as id otherwise
WithAnchor(e) ==
    IF e.id # "" THEN e ELSE [e EXCEPT !.hasId = TRUE, !.id = slugify(e.text)]

\* C25: TOC extraction leaves existing ids alone: for a heading that has a
\* non-empty id the anchor of its entry is that id and the heading is not
\* modified; only an H1-H3 heading without id is changed and gets the slug
\* of its text (lower case, every run of non-word characters a '-') as id,
\* which is the anchor of its entry; nothing else in the fragment is changed.
C25_OnlyMissingIdsAdded ==
    \A f \in PagesExtracted :
        LET html     == originalRender(data[f])
            toc      == generateTocFromHtml(html)
            headings == SelectSeq(html, LAMBDA e : e.tag \in {"h1", "h2", "h3"})
        IN  /\ toc.tocData = generated[f].tocData
            /\ Len(toc.tocData) = Len(headings)
            /\ \A k \in DOMAIN headings : toc.tocData[k].anchor = WithAnchor(headings[k]).id
            /\ Len(toc.updatedHtml) = Len(html)
            /\ \A i \in DOMAIN html :
                  /\ i \in DOMAIN toc.updatedHtml
                  /\ toc.updatedHtml[i] = IF html[i].tag \in {"h1", "h2", "h3"}
                                          THEN WithAnchor(html[i]) ELSE html[i]

\* the TOC markup and TOC data extracted from the render of the chapter f
\* alone: nothing when the extraction fails, the notice and no entry when the
\* render has no H1-H3 heading
OwnToc(f) ==
    LET html == originalRender(data[f])
    IN  IF basename(f) \in tocThrows THEN [tocHtml |-> TocNone, tocData |-> << >>]
        ELSE IF \A i \in DOMAIN html : html[i].tag \notin {"h1", "h2", "h3"}
        THEN [tocHtml |-> TocNotice, tocData |-> << >>]
        ELSE [tocHtml |-> generateTocFromHtml(html).tocHtml,
              tocData |-> generateTocFromHtml(html).tocData]

\* the chapter processed last, when the build is between two chapters
JustProcessed ==
    IF pc = "process" /\ cursor > 1 THEN {markdownFiles[cursor - 1]} ELSE {}

\* the file at the output path of the chapter f is the page written for f
\* (the library index has not been written over it)
IsPageOf(f) == docs[MirrorPath(f)].kind = "chapter"

\* C26: the TOC markup and the TOC data put into a page are those extracted
\* from the render of the chapter of that page, in every order of the files:
\* the variables currentTocHtml and currentTocData never carry the TOC of an
\* earlier chapter into a later page, a later chapter without heading or
\* with a failed TOC extraction included.
C26_TocOfSameChapter ==
    /\ \A f \in DOMAIN generated :
          /\ generated[f].tocHtml = OwnToc(f).tocHtml
          /\ generated[f].tocData = OwnToc(f).tocData
          /\ "{%PAGE_TOC%}" \in TemplatePlaceholders(template) /\ IsPageOf(f) =>
                docs[MirrorPath(f)].tocHtml = OwnToc(f).tocHtml
          /\ "{%PAGE_TOC_DATA%}" \in TemplatePlaceholders(template) /\ IsPageOf(f) =>
                docs[MirrorPath(f)].tocData = OwnToc(f).tocData
    /\ \A f \in JustProcessed :
          currentTocHtml = OwnToc(f).tocHtml /\ currentTocData = OwnToc(f).tocData

\* a build is complete, with a template that has both TOC placeholders, in
\* which a chapter without heading and a chapter whose TOC extraction failed
\* were each processed right after a chapter with TOC entries
C26_Witness ==
    /\ pc = "done"
    /\ "{%PAGE_TOC%}" \in TemplatePlaceholders(template)
    /\ "{%PAGE_TOC_DATA%}" \in TemplatePlaceholders(template)
    /\ \E i \in 2..Len(markdownFiles) :
          /\ generated[markdownFiles[i - 1]].tocData # << >>
          /\ generated[markdownFiles[i]].tocHtml = TocNotice
    /\ \E i \in 2..Len(markdownFiles) :
          /\ generated[markdownFiles[i - 1]].tocData # << >>
          /\ generated[markdownFiles[i]].tocHtml = TocNone

\* C27: within one build no output path is written twice: the pages of
\* different chapter files have different paths, and the library index,
\* written last to docs/index.html, does not replace the page of a chapter,
\* markdown files directly in the content root (data/index.md) included.
C27_NoPathWrittenTwice ==
    \A i, j \in DOMAIN written : i # j => written[i] # written[j]

\* the output directory of the page of the chapter f
OutputDir(f) == dirname(MirrorPath(f))

\* C28: no navigation link dangles: in a finished build every previous, next
\* and table-of-contents href of a page names a file the build wrote into
\* the output directory of that page, and every entry of the list of a
\* directory is a chapter file that discovery found in that directory; so
\* for the lexical list of a directory with a dot-prefixed .md file and for
\* manifest targets with a subdirectory.
C28_NoDanglingNavigation ==
    pc = "done" =>
        /\ \A n \in EmittedLinks :
              \E i \in DOMAIN written :
                  written[i] = OutputDir(n[1]) \o "/" \o generated[n[1]][n[2]].href
        /\ \A dir \in DOMAIN filesByDir :
              \A i \in DOMAIN filesByDir[dir] :
                  /\ \E k \in DOMAIN markdownFiles : markdownFiles[k] = filesByDir[dir][i]
                  /\ dirname(filesByDir[dir][i]) = dir

\* C29: templating replaces only tokens of the template: the rendered body
\* of a chapter stands in the page as it was rendered, so that a literal
\* {{page_title}}, {{nav_previous_link}}, {{nav_toc_link}},
\* {{nav_next_link}}, {%PAGE_TOC%} or {%PAGE_TOC_DATA%} in the content of
\* a chapter is not replaced by the later substitution steps.
C29_BodyEmittedUnchanged ==
    \A f \in DOMAIN generated :
        IsPageOf(f) => docs[MirrorPath(f)].body = generated[f].body

\* the chapter files discovered in a directory that are no entry of its list
UnlistedChapters ==
    {f \in Chapters : /\ ~IsIndexMd(f)
                      /\ dirname(f) \in DOMAIN filesByDir
                      /\ \A i \in DOMAIN filesByDir[dirname(f)] : filesByDir[dirname(f)][i] # f}

\* C30: a chapter that is no member of the list of its directory (a file the
\* manifest leaves out) is outside the navigation sequence: its page is
\* generated all the same, and on it previous and next are both disabled
\* placeholders, never a link to a listed chapter.
C30_UnlistedChapterOutsideSequence ==
    pc = "done" =>
        \A f \in UnlistedChapters :
            /\ f \in DOMAIN generated
            /\ MirrorPath(f) \in DOMAIN docs
            /\ generated[f].prev.kind = "disabled"
            /\ generated[f].next.kind = "disabled"

====
